---- MODULE Spec2Model ----
(***************************************************************************)
(* Circuit simulator: the MNA solver (solveCircuit, gaussianElimination),  *)
(* the transient driver (the rAF loop of App) and the editor operations    *)
(* that change the element list.                                           *)
(*                                                                         *)
(* Numbers.  The program computes with IEEE doubles; the model computes    *)
(* with exact rationals, so every statement about a computed value is a    *)
(* statement about the real-number value of the program's expression.      *)
(* A rational is a record [s, n, d]: sign s in {-1, 0, 1}, numerator n and *)
(* denominator d coprime naturals.  A natural is a little-endian sequence  *)
(* of limbs in base Base without leading zero limbs (<<>> is 0), because   *)
(* 1e-6 and 1e9 in one circuit need more than 32 bits.                     *)
(***************************************************************************)
EXTENDS Integers, Sequences, FiniteSets, Bags, TLC

VARIABLES
  components,        \* App: const [components, setComponents] = useState([])
  componentsRef,     \* App: componentsRef.current
  selectedId,        \* App: selectedId (0 for null)
  dragState,         \* CircuitCanvas: dragState
  listeners,         \* CircuitCanvas: the dragState the attached window listeners close over
  driver,            \* the physics loop effect: "idle" | "running" | "torn"
  pending,           \* ids of the frame callbacks requested and not yet run or cancelled
  animationFrameId,  \* App: let animationFrameId
  tick,              \* what the last executed loop() read, computed and decided
  nextId,            \* the next fresh id (Math.random().toString(36)..., frame request ids)
  edits,             \* number of editor operations so far (bounded)
  ticks,             \* number of executed loop() bodies so far (bounded)
  dt,                \* the dt argument of a direct call of solveCircuit
  out                \* locals and result of the last direct call of solveCircuit

vars == <<components, componentsRef, selectedId, dragState, listeners, driver, pending,
          animationFrameId, tick, nextId, edits, ticks, dt, out>>

-----------------------------------------------------------------------------
(* Natural numbers of any size *)

Base == 1000

Limb(a, i) == IF i <= Len(a) THEN a[i] ELSE 0

MaxOf(S) == CHOOSE i \in S : \A j \in S : j <= i

\* s without its leading zero limbs
Strip(s) ==
  IF \A i \in 1..Len(s) : s[i] = 0 THEN <<>>
  ELSE SubSeq(s, 1, MaxOf({i \in 1..Len(s) : s[i] # 0}))

\* 0 <= n < 2^31 as limbs
FromInt(n) == Strip(<<n % Base, (n \div Base) % Base, (n \div (Base * Base)) % Base,
                      n \div (Base * Base * Base)>>)
\* the value of at most three limbs
ToInt(a) == Limb(a, 1) + Base * Limb(a, 2) + Base * Base * Limb(a, 3)
Top2(a) == a[Len(a)] * Base + a[Len(a) - 1]
Top3(a) == Top2(a) * Base + a[Len(a) - 2]

\* limbs lo..hi of the column values s after adding the carry (or borrow) c
\* at lo: <<the limbs, the carry out of hi>>
RECURSIVE Carry(_, _, _, _)
Carry(s, lo, hi, c) ==
  IF lo = hi
  THEN LET v == s[lo] + c IN << <<v % Base>>, v \div Base >>
  ELSE IF lo + 1 = hi
  THEN LET v == s[lo] + c
           w == s[hi] + v \div Base
       IN << <<v % Base, w % Base>>, w \div Base >>
  ELSE LET L == Carry(s, lo, (lo + hi) \div 2, c)
           R == Carry(s, (lo + hi) \div 2 + 1, hi, L[2])
       IN <<L[1] \o R[1], R[2]>>

\* the sum of a[i] * b[k + 1 - i]: column k of the product a * b.  The sum
\* is taken as the cardinality of the bag holding a[i] * b[k + 1 - i] + 1
\* copies of i.
ColSum(a, b, k) ==
  LET lo == IF k > Len(b) THEN k + 1 - Len(b) ELSE 1
      hi == IF k < Len(a) THEN k ELSE Len(a)
  IN IF lo > hi THEN 0
     ELSE BagCardinality([i \in lo..hi |-> a[i] * b[k + 1 - i] + 1]) - (hi - lo + 1)

NCmp(a, b) ==
  IF Len(a) # Len(b) THEN (IF Len(a) > Len(b) THEN 1 ELSE -1)
  ELSE IF a = b THEN 0
  ELSE IF a[MaxOf({i \in 1..Len(a) : a[i] # b[i]})] > b[MaxOf({i \in 1..Len(a) : a[i] # b[i]})]
       THEN 1 ELSE -1

NCarried(p) == Strip(p[1] \o FromInt(p[2]))

\* the number with the l column values a[i] + sg * (m * b * Base^k)[i]
NColumns(a, sg, m, b, k, l) ==
  IF l = 0 THEN <<>>
  ELSE NCarried(Carry([i \in 1..l |->
                         Limb(a, i) + (IF i > k THEN sg * ColSum(m, b, i - k) ELSE 0)],
                      1, l, 0))

\* a + sg * m * b * Base^k   (sg in {-1, 1}; the result must not be negative)
NFma(a, sg, m, b, k) ==
  IF Len(m) = 0 \/ Len(b) = 0 THEN a
  ELSE NColumns(a, sg, m, b, k,
                IF Len(a) >= Len(m) + Len(b) - 1 + k THEN Len(a)
                ELSE Len(m) + Len(b) - 1 + k)

NMul(a, b) == NFma(<<>>, 1, a, b, 0)

\* <<q, k>> with q >= 1 and q * Base^k * b <= r, for r >= b > 0:
\* an underestimate of r / b from the leading limbs
MultQ(r, b) ==
  IF Len(r) <= 3 THEN <<ToInt(r) \div ToInt(b), 0>>
  ELSE IF Len(b) <= 2 THEN <<Top3(r) \div ToInt(b), Len(r) - 3>>
  ELSE IF Len(r) = Len(b)
       THEN <<IF Top3(r) < (Top2(b) + 1) * Base THEN 1
              ELSE Top3(r) \div ((Top2(b) + 1) * Base), 0>>
       ELSE <<Top3(r) \div (Top2(b) + 1), Len(r) - Len(b) - 1>>

\* <<quotient so far, remainder so far, remainder < b>>
DivState(q, r, b) == <<q, r, NCmp(r, b) < 0>>

\* <<q + m * Base^k, r - m * b * Base^k>> for p = <<q, r>>
DivSub(p, b, m, k) == DivState(NFma(p[1], 1, m, <<1>>, k), NFma(p[2], -1, m, b, k), b)

DivApply(p, b, m) == DivSub(p, b, FromInt(m[1]), m[2])

\* one reduction step, for a remainder >= b
DivStep(p, b) == IF p[3] THEN p ELSE DivApply(p, b, MultQ(p[2], b))

\* up to 2^k reduction steps, in recursion depth k
RECURSIVE DivIter(_, _, _)
RECURSIVE DivMore(_, _, _)
DivIter(k, p, b) == IF k = 0 THEN DivStep(p, b) ELSE DivMore(k - 1, DivIter(k - 1, p, b), b)

DivMore(k, p, b) == IF p[3] THEN p ELSE DivIter(k, p, b)

\* the least k with 2^k >= n, for n >= 1
Log2(n) == CHOOSE k \in 0..30 : 2 ^ k >= n /\ (k = 0 \/ 2 ^ (k - 1) < n)

\* <<a \div b, a % b, TRUE>>; a step removes at least half a limb of the quotient
NDivMod(a, b) ==
  CHOOSE p \in {DivIter(Log2(2 * (Len(a) + 2)), DivState(<<>>, a, b), b)} : p[3]

\* <<the larger, the smaller, whether the smaller is 0>>
Ordered(x, y) == IF NCmp(x, y) < 0 THEN <<y, x, x = <<>> >> ELSE <<x, y, y = <<>> >>

\* one step of Euclid's algorithm on p = <<x, y>>, x >= y > 0, with x % y
\* taken one reduction at a time
GcdReduce(p, m) == Ordered(NFma(p[1], -1, FromInt(m[1]), p[2], m[2]), p[2])

GcdStep(p) == IF p[3] THEN p ELSE GcdReduce(p, MultQ(p[1], p[2]))

\* up to 2^k steps, in recursion depth k
RECURSIVE GcdIter(_, _)
RECURSIVE GcdMore(_, _)
GcdIter(k, p) == IF k = 0 THEN GcdStep(p) ELSE GcdMore(k - 1, GcdIter(k - 1, p))

GcdMore(k, p) == IF p[3] THEN p ELSE GcdIter(k, p)

\* Euclid's algorithm divides at most 5 times per decimal digit
NGcd(a, b) ==
  (CHOOSE p \in {GcdIter(Log2(16 * (Len(a) + Len(b))), Ordered(a, b))} : p[3])[1]

-----------------------------------------------------------------------------
(* Rational numbers: the values of the program's `number`s *)

RZero == [s |-> 0, n |-> <<>>, d |-> <<1>>]
ROne == [s |-> 1, n |-> <<1>>, d |-> <<1>>]

RNorm(s, n, d) ==
  IF Len(n) = 0 THEN RZero
  ELSE LET g == NGcd(n, d)
       IN IF g = <<1>> THEN [s |-> s, n |-> n, d |-> d]
          ELSE [s |-> s, n |-> NDivMod(n, g)[1], d |-> NDivMod(d, g)[1]]

\* the rational p / q for integers p and q > 0
RFrac(p, q) ==
  IF p = 0 THEN RZero
  ELSE RNorm(IF p > 0 THEN 1 ELSE -1, FromInt(IF p > 0 THEN p ELSE -p), FromInt(q))

RInt(k) == RFrac(k, 1)

\* a + sg * b * c = (a.s * x + bs * y) / (a.d * bd)
RFma(a, sg, b, c) ==
  IF sg * b.s * c.s = 0 THEN a
  ELSE LET bs == sg * b.s * c.s
           bd == NMul(b.d, c.d)
           x == NMul(a.n, bd)
           y == NMul(NMul(b.n, c.n), a.d)
           less == a.s # bs /\ NCmp(x, y) < 0
       IN RNorm(IF a.s = bs \/ less THEN bs ELSE a.s,
                NFma(IF less THEN y ELSE x, IF a.s = bs THEN 1 ELSE -1, <<1>>,
                     IF less THEN x ELSE y, 0),
                NMul(a.d, bd))

RNeg(a) == [a EXCEPT !.s = -a.s]
RAbs(a) == [a EXCEPT !.s = IF a.s = 0 THEN 0 ELSE 1]
\* 1 / a for a # 0
RInv(a) == [s |-> a.s, n |-> a.d, d |-> a.n]
RAdd(a, b) == RFma(a, 1, b, ROne)
RSub(a, b) == RFma(a, -1, b, ROne)
RMul(a, b) == RFma(RZero, 1, a, b)
RDiv(a, b) == RFma(RZero, 1, a, RInv(b))

\* -1, 0, 1 as a < b, a = b, a > b
RCmp(a, b) ==
  IF a.s # b.s THEN (IF a.s > b.s THEN 1 ELSE -1)
  ELSE IF a.s = 0 THEN 0
  ELSE a.s * NCmp(NMul(a.n, b.d), NMul(b.n, a.d))

RLt(a, b) == RCmp(a, b) < 0
RGt(a, b) == RCmp(a, b) > 0
RLe(a, b) == RCmp(a, b) <= 0


-----------------------------------------------------------------------------
(* types.ts *)

ComponentTypes ==
  {"WIRE", "RESISTOR", "BATTERY", "LIGHTBULB", "SWITCH", "VOLTMETER", "AMMETER",
   "CAPACITOR", "INDUCTOR"}

\* an optional number that is not set (properties.resistance?, prevCurrent?, ...)
Undefined == [s |-> 0, n |-> <<>>, d |-> <<>>]
IsUndefined(v) == Len(v.d) = 0

\* JavaScript `v || dflt` on an optional number: undefined and 0 are falsy
Or(v, dflt) == IF IsUndefined(v) \/ v.s = 0 THEN dflt ELSE v

\* a function on 1..n as the sequence of its values, each computed once
AsSeq(f) == IF f = <<>> THEN <<>> ELSE f

\* Math.hypot(dx, dy) <= r
HypotNotMore(dx, dy, r) == dx * dx + dy * dy <= r * r

\* Math.hypot(dx, dy) < r for integer dx, dy, r
HypotLess(dx, dy, r) == dx * dx + dy * dy < r * r

-----------------------------------------------------------------------------
(* utils/solver.ts *)

EPSILON_RESISTANCE == RFrac(1, 1000000)
INFINITE_RESISTANCE == RFrac(1000000000, 1)
SNAP_DISTANCE == 10
\* the tolerance 1e-10 of gaussianElimination
PIVOT_TOLERANCE == RMul(RFrac(1, 100000), RFrac(1, 100000))

\* points.push({...c.p1, compId}); points.push({...c.p2, compId})
Points(comps) ==
  [k \in 1..(2 * Len(comps)) |->
     LET c == comps[(k + 1) \div 2]
         p == IF k % 2 = 1 THEN c.p1 ELSE c.p2
     IN [id |-> p.id, x |-> p.x, y |-> p.y, compId |-> c.id]]

\* 1. Identify Nodes: the loop over i from the state st = [pointToNode, nodeCount]
RECURSIVE IdentifyNodes(_, _, _)
IdentifyNodes(points, i, st) ==
  IF i > Len(points) THEN st
  ELSE IF points[i].id \in DOMAIN st.pointToNode THEN IdentifyNodes(points, i + 1, st)
  ELSE LET nodeId == st.nodeCount
           near == {j \in (i + 1)..Len(points) :
                      /\ points[j].id \notin DOMAIN st.pointToNode
                      /\ HypotLess(points[i].x - points[j].x, points[i].y - points[j].y,
                                   SNAP_DISTANCE)}
           new == {points[i].id} \cup {points[j].id : j \in near}
       IN IdentifyNodes(points, i + 1,
            [pointToNode |-> [id \in (DOMAIN st.pointToNode) \cup new |->
                                IF id \in DOMAIN st.pointToNode
                                THEN st.pointToNode[id] ELSE nodeId],
             nodeCount |-> nodeId + 1])

\* node identification with the node counter started at 1
TopologyFromOne(comps) ==
  IdentifyNodes(Points(comps), 1, [pointToNode |-> <<>>, nodeCount |-> 1])

Topology(comps) == IdentifyNodes(Points(comps), 1, [pointToNode |-> <<>>, nodeCount |-> 0])

voltageSources(comps) == SelectSeq(comps, LAMBDA c : c.type = "BATTERY")

\* addConductance without the entry (n2, n1)
addConductanceOneSided(A, n1, n2, g) ==
  LET A1 == IF n1 > 0 THEN [A EXCEPT ![n1][n1] = RAdd(@, g)] ELSE A
      A2 == IF n2 > 0 THEN [A1 EXCEPT ![n2][n2] = RAdd(@, g)] ELSE A1
  IN IF n1 > 0 /\ n2 > 0 THEN [A2 EXCEPT ![n1][n2] = RSub(@, g)] ELSE A2

\* node k > 0 owns row and column k (A[k - 1] in the program's 0-based arrays)
addConductance(A, n1, n2, g) ==
  LET A1 == IF n1 > 0 THEN [A EXCEPT ![n1][n1] = RAdd(@, g)] ELSE A
      A2 == IF n2 > 0 THEN [A1 EXCEPT ![n2][n2] = RAdd(@, g)] ELSE A1
      A3 == IF n1 > 0 /\ n2 > 0 THEN [A2 EXCEPT ![n1][n2] = RSub(@, g)] ELSE A2
  IN IF n1 > 0 /\ n2 > 0 THEN [A3 EXCEPT ![n2][n1] = RSub(@, g)] ELSE A3

\* addCurrentSource with the current entering n1 and leaving n2
addCurrentSourceReversed(Z, n1, n2, i) ==
  LET Z1 == IF n1 > 0 THEN [Z EXCEPT ![n1] = RAdd(@, i)] ELSE Z
  IN IF n2 > 0 THEN [Z1 EXCEPT ![n2] = RSub(@, i)] ELSE Z1

addCurrentSource(Z, n1, n2, i) ==
  LET Z1 == IF n1 > 0 THEN [Z EXCEPT ![n1] = RSub(@, i)] ELSE Z
  IN IF n2 > 0 THEN [Z1 EXCEPT ![n2] = RAdd(@, i)] ELSE Z1

\* the resistance used for the element, in stamping and in extraction
Resistance(comp) ==
  IF comp.type \in {"RESISTOR", "LIGHTBULB"} THEN Or(comp.properties.resistance, RInt(10))
  ELSE IF comp.type = "SWITCH"
       THEN (IF comp.properties.isOpen THEN INFINITE_RESISTANCE ELSE EPSILON_RESISTANCE)
  ELSE IF comp.type = "VOLTMETER" THEN INFINITE_RESISTANCE
  ELSE EPSILON_RESISTANCE

vOld(comp) == RSub(Or(comp.prevP1Potential, RZero), Or(comp.prevP2Potential, RZero))

\* `conductance` without the 1 / of the resistive elements
ConductanceNotInverted(comp, step) ==
  IF comp.type \in {"RESISTOR", "LIGHTBULB", "SWITCH", "WIRE", "AMMETER", "VOLTMETER"}
  THEN Resistance(comp)
  ELSE IF comp.type = "CAPACITOR"
       THEN (IF step.s > 0
             THEN RDiv(Or(comp.properties.capacitance, RFrac(1, 10000)), step)
             ELSE RInv(INFINITE_RESISTANCE))
  ELSE IF comp.type = "INDUCTOR"
       THEN (IF step.s > 0
             THEN RDiv(step, Or(comp.properties.inductance, ROne))
             ELSE RInv(EPSILON_RESISTANCE))
  ELSE RZero

\* `conductance` of the element in the stamping loop
Conductance(comp, step) ==
  IF comp.type \in {"RESISTOR", "LIGHTBULB", "SWITCH", "WIRE", "AMMETER", "VOLTMETER"}
  THEN RInv(Resistance(comp))
  ELSE IF comp.type = "CAPACITOR"
       THEN (IF step.s > 0
             THEN RDiv(Or(comp.properties.capacitance, RFrac(1, 10000)), step)
             ELSE RInv(INFINITE_RESISTANCE))
  ELSE IF comp.type = "INDUCTOR"
       THEN (IF step.s > 0
             THEN RDiv(step, Or(comp.properties.inductance, ROne))
             ELSE RInv(EPSILON_RESISTANCE))
  ELSE RZero

\* `currentSource` of the element in the stamping loop
CurrentSource(comp, step) ==
  IF comp.type = "CAPACITOR" /\ step.s > 0
  THEN RNeg(RMul(Conductance(comp, step), vOld(comp)))
  ELSE IF comp.type = "INDUCTOR" /\ step.s > 0 THEN Or(comp.prevCurrent, RZero)
  ELSE RZero

\* one pass of components.forEach(comp => ...) on st = [k, A, Z], k the
\* position of comp
StampComponent(st, comp, n1, n2, step) ==
  IF comp.type = "BATTERY" \/ n1 = n2 THEN [st EXCEPT !.k = @ + 1]
  ELSE [k |-> st.k + 1,
        A |-> addConductance(st.A, n1, n2, Conductance(comp, step)),
        Z |-> IF CurrentSource(comp, step).s # 0
              THEN addCurrentSource(st.Z, n1, n2, CurrentSource(comp, step))
              ELSE st.Z]

\* components.forEach(comp => ...), from position st.k on
RECURSIVE FillComponents(_, _, _, _)
FillComponents(comps, pointToNode, step, st) ==
  IF st.k > Len(comps) THEN st
  ELSE FillComponents(comps, pointToNode, step,
         StampComponent(st, comps[st.k], pointToNode[comps[st.k].p1.id],
                        pointToNode[comps[st.k].p2.id], step))

\* the stamp of the battery written into its row only
StampVoltageSourceRowOnly(st, comp, n1, n2, vIndex) ==
  LET A1 == IF n1 > 0 THEN [st.A EXCEPT ![vIndex][n1] = ROne] ELSE st.A
      A2 == IF n2 > 0 THEN [A1 EXCEPT ![vIndex][n2] = RNeg(ROne)] ELSE A1
  IN [k |-> st.k + 1, A |-> A2,
      Z |-> [st.Z EXCEPT ![vIndex] = Or(comp.properties.voltage, RInt(9))]]

\* the stamp of the battery comp at position st.k (from 1) of voltageSources:
\* row and column vIndex = (nodeCount - 1) + st.k
StampVoltageSource(st, comp, n1, n2, vIndex) ==
  LET A1 == IF n1 > 0
            THEN [[st.A EXCEPT ![vIndex][n1] = ROne] EXCEPT ![n1][vIndex] = ROne]
            ELSE st.A
      A2 == IF n2 > 0
            THEN [[A1 EXCEPT ![vIndex][n2] = RNeg(ROne)] EXCEPT ![n2][vIndex] = RNeg(ROne)]
            ELSE A1
  IN [k |-> st.k + 1, A |-> A2,
      Z |-> [st.Z EXCEPT ![vIndex] = Or(comp.properties.voltage, RInt(9))]]

\* voltageSources.forEach((comp, idx) => ...), from position st.k on
RECURSIVE FillVoltageSources(_, _, _, _)
FillVoltageSources(vs, pointToNode, nodeCount, st) ==
  IF st.k > Len(vs) THEN st
  ELSE FillVoltageSources(vs, pointToNode, nodeCount,
         StampVoltageSource(st, vs[st.k], pointToNode[vs[st.k].p1.id],
                            pointToNode[vs[st.k].p2.id], (nodeCount - 1) + st.k))

\* A and Z with a row and a column for the ground node as well
ZerosWithGround(mSize) ==
  [k |-> 1,
   A |-> AsSeq([r \in 1..(mSize + 1) |-> AsSeq([c \in 1..(mSize + 1) |-> RZero])]),
   Z |-> AsSeq([r \in 1..(mSize + 1) |-> RZero])]

\* A and Z filled with zeros, of size mSize
Zeros(mSize) ==
  [k |-> 1,
   A |-> AsSeq([r \in 1..mSize |-> AsSeq([c \in 1..mSize |-> RZero])]),
   Z |-> AsSeq([r \in 1..mSize |-> RZero])]

\* 2. Build MNA Matrix: [A, Z] of size mSize = (nodeCount - 1) + voltageSources.length
Assemble(comps, step, pointToNode, nodeCount) ==
  FillVoltageSources(voltageSources(comps), pointToNode, nodeCount,
    [FillComponents(comps, pointToNode, step,
                    Zeros((nodeCount - 1) + Len(voltageSources(comps))))
     EXCEPT !.k = 1])

-----------------------------------------------------------------------------
(* gaussianElimination *)

\* the partial-pivoting scan over k, from row k with the best row so far
RECURSIVE FindMaxRow(_, _, _, _)
FindMaxRow(M, i, k, maxRow) ==
  IF k > Len(M) THEN maxRow
  ELSE IF RGt(RAbs(M[k][i]), RAbs(M[maxRow][i])) THEN FindMaxRow(M, i, k + 1, k)
  ELSE FindMaxRow(M, i, k + 1, maxRow)

Swap(f, i, j) == [f EXCEPT ![i] = f[j], ![j] = f[i]]

\* one pass of the outer loop (column i) on S = [M, x]
EliminateColumn(S, i) ==
  LET n == Len(S.M)
      maxRow == FindMaxRow(S.M, i, i + 1, i)
      M == Swap(S.M, i, maxRow)
      x == Swap(S.x, i, maxRow)
  IN IF RLt(RAbs(M[i][i]), PIVOT_TOLERANCE) THEN [M |-> M, x |-> x]
     ELSE LET factor == AsSeq([k \in 1..n |->
                                 IF k > i THEN RDiv(M[k][i], M[i][i]) ELSE RZero])
          IN [M |-> AsSeq([k \in 1..n |->
                       IF k > i
                       THEN AsSeq([j \in 1..n |->
                               IF j >= i THEN RFma(M[k][j], -1, factor[k], M[i][j])
                               ELSE M[k][j]])
                       ELSE M[k]]),
              x |-> AsSeq([k \in 1..n |->
                       IF k > i THEN RFma(x[k], -1, factor[k], x[i]) ELSE x[k]])]

RECURSIVE Eliminate(_, _)
Eliminate(S, i) == IF i > Len(S.M) THEN S ELSE Eliminate(EliminateColumn(S, i), i + 1)

\* sum += M[i][j] * result[j], from st = <<j, sum>> on
RECURSIVE RowSum(_, _, _, _)
RowSum(M, result, i, st) ==
  IF st[1] > Len(M) THEN st[2]
  ELSE RowSum(M, result, i, <<st[1] + 1, RFma(st[2], 1, M[i][st[1]], result[st[1]])>>)

\* the back substitution pass with the right-hand side kept for a row
\* without a pivot
SolveRowKeepingRhs(S, i, result) ==
  IF RGt(RAbs(S.M[i][i]), PIVOT_TOLERANCE)
  THEN [result EXCEPT
          ![i] = RDiv(RSub(S.x[i], RowSum(S.M, result, i, <<i + 1, RZero>>)), S.M[i][i])]
  ELSE [result EXCEPT ![i] = S.x[i]]

\* one pass of the back substitution loop, for row i
SolveRow(S, i, result) ==
  IF RGt(RAbs(S.M[i][i]), PIVOT_TOLERANCE)
  THEN [result EXCEPT
          ![i] = RDiv(RSub(S.x[i], RowSum(S.M, result, i, <<i + 1, RZero>>)), S.M[i][i])]
  ELSE result

\* the back substitution loop, from st = [i, result] on
RECURSIVE BackSubstitute(_, _)
BackSubstitute(S, st) ==
  IF st.i = 0 THEN st.result
  ELSE BackSubstitute(S, [i |-> st.i - 1, result |-> SolveRow(S, st.i, st.result)])

gaussianElimination(A, b) ==
  IF Len(A) = 0 THEN <<>>
  ELSE BackSubstitute(Eliminate([M |-> A, x |-> b], 1),
                      [i |-> Len(A), result |-> AsSeq([i \in 1..Len(A) |-> RZero])])

-----
(* 4. Extract Results *)

\* node potentials with node 0 read from the solution as well
NodePotentialsUngrounded(x, nodeCount) ==
  [n \in 0..(nodeCount - 1) |->
     IF n = 0 THEN (IF Len(x) > 0 THEN Or(x[Len(x)], RZero) ELSE RZero)
     ELSE Or(x[n], RZero)]

NodePotentials(x, nodeCount) ==
  [n \in 0..(nodeCount - 1) |-> IF n = 0 THEN RZero ELSE Or(x[n], RZero)]

PointPotentials(comps, pointToNode, nodePotentials) ==
  [id \in {c.p1.id : c \in {comps[k] : k \in 1..Len(comps)}}
          \cup {c.p2.id : c \in {comps[k] : k \in 1..Len(comps)}} |->
     Or(nodePotentials[pointToNode[id]], RZero)]

\* the 0-based position of the battery among the voltage sources, or -1
RECURSIVE findIndex(_, _, _)
findIndex(vs, id, k) ==
  IF k > Len(vs) THEN -1 ELSE IF vs[k].id = id THEN k - 1 ELSE findIndex(vs, id, k + 1)

\* the current of the element from its resistance alone, the history left out
ComponentCurrentWithoutHistory(comp, comps, step, pointToNode, nodeCount, nodePotentials, x) ==
  LET v1 == Or(nodePotentials[pointToNode[comp.p1.id]], RZero)
      v2 == Or(nodePotentials[pointToNode[comp.p2.id]], RZero)
  IN IF comp.type = "BATTERY"
     THEN Or(x[(nodeCount - 1) + findIndex(voltageSources(comps), comp.id, 1) + 1], RZero)
     ELSE IF comp.type = "CAPACITOR" /\ step.s <= 0 THEN RZero
     ELSE RMul(RSub(v1, v2), Conductance(comp, step))

\* the value componentCurrents.set(comp.id, ...) stores for the element
ComponentCurrent(comp, comps, step, pointToNode, nodeCount, nodePotentials, x) ==
  LET v1 == Or(nodePotentials[pointToNode[comp.p1.id]], RZero)
      v2 == Or(nodePotentials[pointToNode[comp.p2.id]], RZero)
  IN IF comp.type = "BATTERY"
     THEN Or(x[(nodeCount - 1) + findIndex(voltageSources(comps), comp.id, 1) + 1], RZero)
     ELSE IF comp.type = "CAPACITOR"
          THEN (IF step.s > 0
                THEN RMul(RDiv(Or(comp.properties.capacitance, RFrac(1, 10000)), step),
                          RSub(RSub(v1, v2), vOld(comp)))
                ELSE RZero)
     ELSE IF comp.type = "INDUCTOR"
          THEN (IF step.s > 0
                THEN RFma(Or(comp.prevCurrent, RZero), 1, RSub(v1, v2),
                          RDiv(step, Or(comp.properties.inductance, ROne)))
                ELSE RDiv(RSub(v1, v2), EPSILON_RESISTANCE))
     ELSE RDiv(RSub(v1, v2), Resistance(comp))

\* componentCurrents with an entry for the stamped elements only
ComponentCurrentsOfStamped(comps, step, pointToNode, nodeCount, nodePotentials, x) ==
  [id \in {comps[k].id : k \in {j \in 1..Len(comps) :
                                   pointToNode[comps[j].p1.id] # pointToNode[comps[j].p2.id]}} |->
     LET k == CHOOSE k \in 1..Len(comps) :
                /\ comps[k].id = id
                /\ \A l \in (k + 1)..Len(comps) : comps[l].id # id
     IN ComponentCurrent(comps[k], comps, step, pointToNode, nodeCount, nodePotentials, x)]

ComponentCurrents(comps, step, pointToNode, nodeCount, nodePotentials, x) ==
  [id \in {comps[k].id : k \in 1..Len(comps)} |->
     LET k == CHOOSE k \in 1..Len(comps) :
                /\ comps[k].id = id
                /\ \A l \in (k + 1)..Len(comps) : comps[l].id # id
     IN ComponentCurrent(comps[k], comps, step, pointToNode, nodeCount, nodePotentials, x)]

\* solveCircuit(components, dt): the record of its locals and of its result
\* { pointPotentials, componentCurrents }
Extracted(comps, step, top, AZ, x, nodePotentials) ==
  [pointToNode |-> top.pointToNode, nodeCount |-> top.nodeCount, assembled |-> TRUE,
   A |-> AZ.A, Z |-> AZ.Z, x |-> x,
   pointPotentials |-> PointPotentials(comps, top.pointToNode, nodePotentials),
   componentCurrents |-> ComponentCurrents(comps, step, top.pointToNode, top.nodeCount,
                                           nodePotentials, x)]

\* 4. Extract Results
Extract(comps, step, top, AZ, x) ==
  Extracted(comps, step, top, AZ, x, NodePotentials(x, top.nodeCount))

\* 3. Solve Ax = Z
Solve(comps, step, top, AZ) == Extract(comps, step, top, AZ, gaussianElimination(AZ.A, AZ.Z))

\* 2. Build MNA Matrix, after `if (nodeCount === 0) return {...}`
Build(comps, step, top) ==
  IF top.nodeCount = 0
  THEN [pointToNode |-> top.pointToNode, nodeCount |-> 0, assembled |-> FALSE,
        A |-> <<>>, Z |-> <<>>, x |-> <<>>,
        pointPotentials |-> <<>>, componentCurrents |-> <<>>]
  ELSE Solve(comps, step, top, Assemble(comps, step, top.pointToNode, top.nodeCount))

solveCircuit(comps, step) == Build(comps, step, Topology(comps))

-----------------------------------------------------------------------------
(* App.tsx: the physics loop *)

\* 0.05, const SIMULATION_DT
SIMULATION_DT == RFrac(1, 20)

\* the threshold 0.0001 of hasChanged
CHANGE_THRESHOLD == RFrac(1, 10000)

\* map.get(key): undefined when the key is absent
Get(map, key) == IF key \in DOMAIN map THEN map[key] ELSE Undefined

\* `drop` of the element in the loop's map
VoltageDrop(c, newCurrent, p1V, p2V) ==
  IF c.type = "BATTERY" THEN Or(c.properties.voltage, RZero)
  ELSE IF c.type \in {"VOLTMETER", "CAPACITOR", "INDUCTOR"} THEN RSub(p1V, p2V)
  ELSE IF c.type \in {"WIRE", "SWITCH", "AMMETER"} THEN RZero
  ELSE RMul(newCurrent, Or(c.properties.resistance, RZero))

\* the element without the history written
UpdatedWithoutHistory(c, newCurrent, p1V, p2V) ==
  [c EXCEPT !.current = newCurrent,
            !.voltageDrop = VoltageDrop(c, newCurrent, p1V, p2V),
            !.p1Potential = p1V,
            !.p2Potential = p2V]

\* the element with the potentials it had left in place
UpdatedKeepingPotentials(c, newCurrent, p1V, p2V) ==
  [c EXCEPT !.current = newCurrent,
            !.voltageDrop = VoltageDrop(c, newCurrent, p1V, p2V),
            !.prevCurrent = newCurrent,
            !.prevP1Potential = p1V,
            !.prevP2Potential = p2V]

\* the element with its switch state reset as well
UpdatedClosingSwitch(c, newCurrent, p1V, p2V) ==
  [c EXCEPT !.current = newCurrent,
            !.voltageDrop = VoltageDrop(c, newCurrent, p1V, p2V),
            !.p1Potential = p1V,
            !.p2Potential = p2V,
            !.prevCurrent = newCurrent,
            !.prevP1Potential = p1V,
            !.prevP2Potential = p2V,
            !.properties.isOpen = FALSE]

\* the element the loop's map returns for c
Updated(c, newCurrent, p1V, p2V) ==
  [c EXCEPT !.current = newCurrent,
            !.voltageDrop = VoltageDrop(c, newCurrent, p1V, p2V),
            !.p1Potential = p1V,
            !.p2Potential = p2V,
            !.prevCurrent = newCurrent,
            !.prevP1Potential = p1V,
            !.prevP2Potential = p2V]

\* nextComps = currentComps.map(c => ...)
NextComps(currentComps, pointPotentials, componentCurrents) ==
  AsSeq([k \in 1..Len(currentComps) |->
           Updated(currentComps[k],
                   Or(Get(componentCurrents, currentComps[k].id), RZero),
                   Or(Get(pointPotentials, currentComps[k].p1.id), RZero),
                   Or(Get(pointPotentials, currentComps[k].p2.id), RZero))])

\* hasChanged comparing the currents alone
HasChangedCurrentOnly(nextComps, currentComps) ==
  \E i \in 1..Len(nextComps) :
     RGt(RAbs(RSub(nextComps[i].current, currentComps[i].current)), CHANGE_THRESHOLD)

\* hasChanged = nextComps.some((c, i) => ...)
HasChanged(nextComps, currentComps) ==
  \E i \in 1..Len(nextComps) :
     \/ RGt(RAbs(RSub(nextComps[i].current, currentComps[i].current)), CHANGE_THRESHOLD)
     \/ RGt(RAbs(RSub(nextComps[i].voltageDrop, currentComps[i].voltageDrop)),
            CHANGE_THRESHOLD)

-----------------------------------------------------------------------------
(* App.tsx: handleLoadPreset *)

\* createComp(type, x1, y1, x2, y2, props), id the fresh id it draws
createComp(id, type, x1, y1, x2, y2, props) ==
  [id |-> id, type |-> type,
   p1 |-> [x |-> x1, y |-> y1, id |-> <<id, "p1">>],
   p2 |-> [x |-> x2, y |-> y2, id |-> <<id, "p2">>],
   properties |-> props @@ [resistance |-> RInt(10), voltage |-> RInt(9), isOpen |-> FALSE,
                            capacitance |-> RFrac(1, 1000), inductance |-> ROne],
   current |-> RZero, voltageDrop |-> RZero, p1Potential |-> RZero, p2Potential |-> RZero,
   prevCurrent |-> RZero, prevP1Potential |-> RZero, prevP2Potential |-> RZero]

\* no props argument
NoProps == [x \in {} |-> x]

PresetNames == {"series", "parallel", "rc", "rl"}

\* newComponents of the preset, the fresh ids being id, id + 1, ...
Preset(preset, id) ==
  IF preset = "series"
  THEN <<createComp(id, "BATTERY", 100, 300, 100, 100, [voltage |-> RInt(12)]),
         createComp(id + 1, "WIRE", 100, 100, 300, 100, NoProps),
         createComp(id + 2, "SWITCH", 300, 100, 400, 100, [isOpen |-> TRUE]),
         createComp(id + 3, "RESISTOR", 400, 100, 400, 200, [resistance |-> RInt(10)]),
         createComp(id + 4, "LIGHTBULB", 400, 200, 400, 300, [resistance |-> RInt(10)]),
         createComp(id + 5, "WIRE", 400, 300, 100, 300, NoProps)>>
  ELSE IF preset = "parallel"
  THEN <<createComp(id, "BATTERY", 100, 300, 100, 100, [voltage |-> RInt(12)]),
         createComp(id + 1, "WIRE", 100, 100, 300, 100, NoProps),
         createComp(id + 2, "SWITCH", 300, 100, 400, 100, [isOpen |-> TRUE]),
         createComp(id + 3, "RESISTOR", 400, 100, 400, 300, [resistance |-> RInt(20)]),
         createComp(id + 4, "WIRE", 400, 100, 550, 100, NoProps),
         createComp(id + 5, "LIGHTBULB", 550, 100, 550, 300, [resistance |-> RInt(20)]),
         createComp(id + 6, "WIRE", 550, 300, 400, 300, NoProps),
         createComp(id + 7, "WIRE", 400, 300, 100, 300, NoProps)>>
  ELSE IF preset = "rc"
  THEN <<createComp(id, "BATTERY", 100, 300, 100, 100, [voltage |-> RInt(9)]),
         createComp(id + 1, "SWITCH", 100, 100, 300, 100, [isOpen |-> TRUE]),
         createComp(id + 2, "RESISTOR", 300, 100, 500, 100, [resistance |-> RInt(100)]),
         createComp(id + 3, "CAPACITOR", 500, 100, 500, 300, [capacitance |-> RFrac(5, 1000)]),
         createComp(id + 4, "WIRE", 500, 300, 100, 300, NoProps)>>
  ELSE IF preset = "rl"
  THEN <<createComp(id, "BATTERY", 100, 300, 100, 100, [voltage |-> RInt(9)]),
         createComp(id + 1, "SWITCH", 100, 100, 300, 100, [isOpen |-> TRUE]),
         createComp(id + 2, "RESISTOR", 300, 100, 500, 100, [resistance |-> RInt(10)]),
         createComp(id + 3, "INDUCTOR", 500, 100, 500, 300, [inductance |-> RInt(2)]),
         createComp(id + 4, "WIRE", 500, 300, 100, 300, NoProps)>>
  ELSE <<>>

\* handlePropertyChange: prev.map(c => c.id === id ? {...c, properties: {...c.properties, ...changes}} : c)
WithProperties(prev, id, changes) ==
  AsSeq([k \in 1..Len(prev) |->
           IF prev[k].id = id THEN [prev[k] EXCEPT !.properties = changes @@ @]
           ELSE prev[k]])

-----------------------------------------------------------------------------
(* App.tsx: the physics loop effect, and the effect that copies the state to the ref *)

\* the number of editor operations and ticks of a session
MaxSteps == 3

\* no loop() has run yet
NoTick ==
  [ran |-> FALSE, frame |-> 0, snapshot |-> <<>>, stored |-> <<>>,
   pointPotentials |-> <<>>, componentCurrents |-> <<>>, next |-> <<>>,
   changed |-> FALSE, editsAt |-> 0, steady |-> FALSE]

\* requestAnimationFrame(loop) returning id
Requested(scheduled, id) == scheduled \cup {id}

\* cancelAnimationFrame(id)
Cancelled(scheduled, id) == scheduled \ {id}

\* useEffect(() => { ...; animationFrameId = requestAnimationFrame(loop); ... }, [])
Mount ==
  /\ driver = "idle"
  /\ driver' = "running"
  /\ animationFrameId' = ticks + 1
  /\ pending' = Requested(pending, ticks + 1)
  /\ UNCHANGED <<components, componentsRef, selectedId, dragState, listeners, tick, nextId, edits,
                 ticks, dt, out>>

\* useEffect(() => { componentsRef.current = components }, [components]), run
\* after the render of a new state
SyncRef ==
  /\ driver = "running"
  /\ componentsRef # components
  /\ componentsRef' = components
  /\ UNCHANGED <<components, selectedId, dragState, listeners, driver, pending, animationFrameId, tick,
                 nextId, edits, ticks, dt, out>>

\* what loop() computes from currentComps = componentsRef.current and the
\* result r of solveCircuit(currentComps, SIMULATION_DT)
Computed(frame, currentComps, r) ==
  [ran |-> TRUE, frame |-> frame, snapshot |-> currentComps, stored |-> components,
   pointPotentials |-> r.pointPotentials, componentCurrents |-> r.componentCurrents,
   next |-> NextComps(currentComps, r.pointPotentials, r.componentCurrents),
   changed |-> FALSE, editsAt |-> edits,
   steady |-> /\ tick.ran /\ ~tick.changed /\ tick.snapshot = tick.stored
              /\ tick.editsAt = edits]

\* ... and whether it has changed
Decided(t) == [t EXCEPT !.changed = HasChanged(t.next, t.snapshot)]

\* loop() whose frame request stays scheduled after its callback has run
loopKeepingFrame(frame) ==
  /\ frame \in pending
  /\ edits + ticks < MaxSteps
  /\ tick' = Decided(Computed(frame, componentsRef,
                              solveCircuit(componentsRef, SIMULATION_DT)))
  /\ components' = IF tick'.changed THEN tick'.next ELSE components
  /\ ticks' = ticks + 1
  /\ animationFrameId' = ticks + 2
  /\ pending' = Requested(pending, ticks + 2)
  /\ UNCHANGED <<componentsRef, selectedId, dragState, listeners, driver, nextId, edits, dt, out>>

\* loop() that requests the next frame only when it has committed
loopRequestingOnCommit(frame) ==
  /\ frame \in pending
  /\ edits + ticks < MaxSteps
  /\ tick' = Decided(Computed(frame, componentsRef,
                              solveCircuit(componentsRef, SIMULATION_DT)))
  /\ components' = IF tick'.changed THEN tick'.next ELSE components
  /\ ticks' = ticks + 1
  /\ animationFrameId' = IF tick'.changed THEN ticks + 2 ELSE animationFrameId
  /\ pending' = IF tick'.changed THEN Requested(pending \ {frame}, ticks + 2)
                 ELSE pending \ {frame}
  /\ UNCHANGED <<componentsRef, selectedId, dragState, listeners, driver, nextId, edits, dt, out>>

\* loop() with setComponents(nextComps) outside the if (hasChanged)
loopAlwaysCommits(frame) ==
  /\ frame \in pending
  /\ edits + ticks < MaxSteps
  /\ tick' = Decided(Computed(frame, componentsRef,
                              solveCircuit(componentsRef, SIMULATION_DT)))
  /\ components' = tick'.next
  /\ ticks' = ticks + 1
  /\ animationFrameId' = ticks + 2
  /\ pending' = Requested(pending \ {frame}, ticks + 2)
  /\ UNCHANGED <<componentsRef, selectedId, dragState, listeners, driver, nextId, edits, dt, out>>

\* loop(), the callback of the frame request `frame`
loop(frame) ==
  /\ frame \in pending
  /\ edits + ticks < MaxSteps
  /\ tick' = Decided(Computed(frame, componentsRef,
                              solveCircuit(componentsRef, SIMULATION_DT)))
  /\ components' = IF tick'.changed THEN tick'.next ELSE components
  /\ ticks' = ticks + 1
  /\ animationFrameId' = ticks + 2
  /\ pending' = Requested(pending \ {frame}, ticks + 2)
  /\ UNCHANGED <<componentsRef, selectedId, dragState, listeners, driver, nextId, edits, dt, out>>

\* the cleanup cancelling nothing
TeardownWithoutCancel ==
  /\ driver = "running"
  /\ driver' = "torn"
  /\ pending' = pending
  /\ UNCHANGED <<components, componentsRef, selectedId, dragState, listeners, animationFrameId, tick,
                 nextId, edits, ticks, dt, out>>

\* return () => cancelAnimationFrame(animationFrameId), at unmount
Teardown ==
  /\ driver = "running"
  /\ driver' = "torn"
  /\ pending' = Cancelled(pending, animationFrameId)
  /\ UNCHANGED <<components, componentsRef, selectedId, dragState, listeners, animationFrameId, tick,
                 nextId, edits, ticks, dt, out>>

-----------------------------------------------------------------------------
(* The loop on element lists the editor can produce *)

\* the list with the switches clicked closed
Closed(list) ==
  AsSeq([k \in 1..Len(list) |->
           IF list[k].type = "SWITCH" THEN [list[k] EXCEPT !.properties.isOpen = FALSE]
           ELSE list[k]])

\* the rc preset with the sliders at r ohm and c microfarad
RcWith(r, c) ==
  WithProperties(WithProperties(Preset("rc", 1), 3, [resistance |-> RInt(r)]),
                 4, [capacitance |-> RFrac(c, 1000000)])

DriveLists ==
  {Preset(p, 1) : p \in PresetNames}
    \cup {Closed(Preset(p, 1)) : p \in PresetNames}
    \cup {Closed(RcWith(r, c)) : r \in {1, 100}, c \in {10, 100}}

InitDrive ==
  /\ components \in DriveLists
  /\ componentsRef = components
  /\ selectedId = 0
  /\ dragState = [active |-> FALSE]
  /\ listeners = [active |-> FALSE]
  /\ driver = "idle"
  /\ pending = {}
  /\ animationFrameId = 0
  /\ tick = NoTick
  /\ nextId = 1
  /\ edits = 0
  /\ ticks = 0
  /\ dt = SIMULATION_DT
  /\ out = [solved |-> FALSE]

NextDrive ==
  \/ Mount
  \/ \E frame \in pending : loop(frame)
  \/ SyncRef
  \/ Teardown

SpecDrive == InitDrive /\ [][NextDrive]_vars

\* a step that executes loop(): the steps of NextDrive that change ticks are
\* the loop(frame) steps, and one is possible exactly when a frame is pending
TickOccurs ==
  /\ pending # {}
  /\ edits + ticks < MaxSteps
  /\ ticks' = ticks + 1

\* the browser runs a requested frame callback unless it is cancelled, and
\* React runs the effects of a mounted component
FairDrive == SpecDrive /\ WF_vars(Mount) /\ WF_ticks(TickOccurs)

-----------------------------------------------------------------------------
(* App.tsx: the handlers of the toolbar and of the properties panel.  The    *)
(* pointer is one: while a drag is active no button is clicked.              *)

MaxComponents == 6

\* newComponent of handleAddComponent
newComponent(id, type, offset) ==
  [id |-> id, type |-> type,
   p1 |-> [x |-> 100 + offset, y |-> 100 + offset, id |-> <<id, "p1">>],
   p2 |-> [x |-> 200 + offset, y |-> 100 + offset, id |-> <<id, "p2">>],
   properties |-> [resistance |-> IF type \in {"WIRE", "AMMETER"} THEN RZero ELSE RInt(10),
                   voltage |-> RInt(9), isOpen |-> TRUE,
                   capacitance |-> RFrac(1, 1000), inductance |-> ROne],
   current |-> RZero, voltageDrop |-> RZero, p1Potential |-> RZero, p2Potential |-> RZero,
   prevCurrent |-> RZero, prevP1Potential |-> RZero, prevP2Potential |-> RZero]

\* the types the toolbar buttons are pressed for
AddedTypes == {"BATTERY", "RESISTOR"}

handleAddComponent(type) ==
  /\ driver = "running" /\ ~dragState.active
  /\ edits + ticks < MaxSteps
  /\ Len(components) < MaxComponents
  /\ components' = Append(components, newComponent(nextId, type, Len(components) * 20))
  /\ selectedId' = nextId
  /\ nextId' = nextId + 1
  /\ edits' = edits + 1
  /\ UNCHANGED <<componentsRef, dragState, listeners, driver, pending, animationFrameId, tick, ticks,
                 dt, out>>

\* the presets loaded
LoadedPresets == {"series", "rc"}

handleLoadPreset(preset) ==
  /\ driver = "running" /\ ~dragState.active
  /\ edits + ticks < MaxSteps
  /\ components' = Preset(preset, nextId)
  /\ selectedId' = 0
  /\ nextId' = nextId + Len(Preset(preset, nextId))
  /\ edits' = edits + 1
  /\ UNCHANGED <<componentsRef, dragState, listeners, driver, pending, animationFrameId, tick, ticks,
                 dt, out>>

\* components.find(c => c.id === id): the place of the element, 0 for none
find(list, id) ==
  IF \E k \in 1..Len(list) : list[k].id = id
  THEN CHOOSE k \in 1..Len(list) : list[k].id = id /\ \A j \in 1..(k - 1) : list[j].id # id
  ELSE 0

\* the changes the controls of the properties panel send for the element c
\* (the sliders at an end of their range, the switch button)
PanelChanges(c) ==
  IF c.type \in {"RESISTOR", "LIGHTBULB"} THEN {[resistance |-> RInt(1)], [resistance |-> RInt(100)]}
  ELSE IF c.type = "CAPACITOR" THEN {[capacitance |-> RFrac(10, 1000000)]}
  ELSE IF c.type = "INDUCTOR" THEN {[inductance |-> RFrac(1, 10)]}
  ELSE IF c.type = "BATTERY" THEN {[voltage |-> RFrac(3, 2)]}
  ELSE IF c.type = "SWITCH" THEN {[isOpen |-> ~c.properties.isOpen]}
  ELSE {}

handlePropertyChange(id, changes) ==
  /\ driver = "running" /\ ~dragState.active
  /\ edits + ticks < MaxSteps
  /\ id # 0 /\ id = selectedId
  /\ find(components, id) # 0
  /\ changes \in PanelChanges(components[find(components, id)])
  /\ components' = WithProperties(components, id, changes)
  /\ edits' = edits + 1
  /\ UNCHANGED <<componentsRef, selectedId, dragState, listeners, driver, pending, animationFrameId,
                 tick, nextId, ticks, dt, out>>

\* prev.filter(c => c.id !== id)
Without(prev, id) == SelectSeq(prev, LAMBDA c : c.id # id)

handleDelete(id) ==
  /\ driver = "running" /\ ~dragState.active
  /\ edits + ticks < MaxSteps
  /\ id # 0 /\ id = selectedId
  /\ find(components, id) # 0
  /\ components' = Without(components, id)
  /\ selectedId' = 0
  /\ edits' = edits + 1
  /\ UNCHANGED <<componentsRef, dragState, listeners, driver, pending, animationFrameId, tick, nextId,
                 ticks, dt, out>>

-----------------------------------------------------------------------------
(* components/CircuitCanvas.tsx: pressing, moving and releasing the pointer. *)
(* A pointer position is kept as its offset <<dx, dy>> from the position of  *)
(* the press. A press and a release are rendered, and the listeners of the   *)
(* render attached, before the next pointer event; the render of a move may  *)
(* still wait for its effect when the next pointer event arrives.            *)

SNAP_RADIUS == 15
DRAG_THRESHOLD == 5

\* dragState === null
NoDrag == [active |-> FALSE]

\* the places in the list of the elements the pointer is pressed on, and the
\* part pressed ("" for the body)
PressedPlaces == {2, 3}
PressedParts == {"", "p1"}

\* the offsets the pointer is moved to
Moves == {<<3, 0>>, <<-8, -8>>, <<40, 40>>}

handleMouseDown(compId, handle) ==
  /\ driver = "running" /\ ~dragState.active
  /\ find(components, compId) # 0
  /\ selectedId' = IF handle = "" THEN compId ELSE selectedId
  /\ dragState' = [active |-> TRUE,
                   type |-> IF handle = "" THEN "COMPONENT" ELSE "HANDLE",
                   compId |-> compId, handle |-> handle,
                   initialP1 |-> components[find(components, compId)].p1,
                   initialP2 |-> components[find(components, compId)].p2,
                   hasMoved |-> FALSE]
  /\ listeners' = dragState'
  /\ UNCHANGED <<components, componentsRef, driver, pending, animationFrameId, tick, nextId,
                 edits, ticks, dt, out>>

\* the element c of the map in handleMouseMove
Dragged(c, ds, dx, dy) ==
  IF c.id # ds.compId THEN c
  ELSE IF ds.type = "HANDLE" /\ ds.handle = "p1"
  THEN [c EXCEPT !.p1.x = ds.initialP1.x + dx, !.p1.y = ds.initialP1.y + dy]
  ELSE IF ds.type = "HANDLE" /\ ds.handle = "p2"
  THEN [c EXCEPT !.p2.x = ds.initialP2.x + dx, !.p2.y = ds.initialP2.y + dy]
  ELSE IF ds.type = "COMPONENT"
  THEN [c EXCEPT !.p1.x = ds.initialP1.x + dx, !.p1.y = ds.initialP1.y + dy,
                 !.p2.x = ds.initialP2.x + dx, !.p2.y = ds.initialP2.y + dy]
  ELSE c

\* the listener reads the dragState of the render that attached it; the
\* hasMoved it sets is seen by the listeners once they are attached again
handleMouseMove(dx, dy) ==
  /\ driver = "running" /\ listeners.active
  /\ IF ~listeners.hasMoved
     THEN /\ dragState' = IF HypotLess(dx, dy, DRAG_THRESHOLD) \/ ~dragState.active
                          THEN dragState
                          ELSE [dragState EXCEPT !.hasMoved = TRUE]
          /\ UNCHANGED <<components, edits>>
     ELSE /\ edits + ticks < MaxSteps
          /\ components' = AsSeq([k \in 1..Len(components) |->
                                    Dragged(components[k], listeners, dx, dy)])
          /\ edits' = edits + 1
          /\ UNCHANGED dragState
  /\ UNCHANGED listeners
  /\ UNCHANGED <<componentsRef, selectedId, driver, pending, animationFrameId, tick, nextId,
                 ticks, dt, out>>

\* the click of handleMouseUp: a pressed switch changes state
Clicked(prev, id) ==
  AsSeq([k \in 1..Len(prev) |->
           IF prev[k].id = id THEN [prev[k] EXCEPT !.properties.isOpen = ~@] ELSE prev[k]])

\* JSON.parse(JSON.stringify(prev)): a finite number, a string and a boolean
\* are read back as written, and a field that is not set stays not set
JsonClone(prev) ==
  AsSeq([k \in 1..Len(prev) |-> [f \in DOMAIN prev[k] |-> prev[k][f]]])

\* the snap loop moving the point to the x of the terminal found, its y kept
RECURSIVE SnapLoopKeepingY(_, _, _, _)
SnapLoopKeepingY(h, nextComps, activeId, k) ==
  IF k > Len(nextComps) THEN h
  ELSE IF nextComps[k].id = activeId THEN SnapLoopKeepingY(h, nextComps, activeId, k + 1)
  ELSE IF HypotLess(h.x - nextComps[k].p1.x, h.y - nextComps[k].p1.y, SNAP_RADIUS)
  THEN SnapLoopKeepingY([h EXCEPT !.x = nextComps[k].p1.x], nextComps, activeId, k + 1)
  ELSE IF HypotLess(h.x - nextComps[k].p2.x, h.y - nextComps[k].p2.y, SNAP_RADIUS)
  THEN SnapLoopKeepingY([h EXCEPT !.x = nextComps[k].p2.x], nextComps, activeId, k + 1)
  ELSE SnapLoopKeepingY(h, nextComps, activeId, k + 1)

\* for (const other of nextComps) from place k on, for the point h of the element activeId
RECURSIVE SnapLoop(_, _, _, _)
SnapLoop(h, nextComps, activeId, k) ==
  IF k > Len(nextComps) THEN h
  ELSE IF nextComps[k].id = activeId THEN SnapLoop(h, nextComps, activeId, k + 1)
  ELSE IF HypotLess(h.x - nextComps[k].p1.x, h.y - nextComps[k].p1.y, SNAP_RADIUS)
  THEN SnapLoop([h EXCEPT !.x = nextComps[k].p1.x, !.y = nextComps[k].p1.y],
                nextComps, activeId, k + 1)
  ELSE IF HypotLess(h.x - nextComps[k].p2.x, h.y - nextComps[k].p2.y, SNAP_RADIUS)
  THEN SnapLoop([h EXCEPT !.x = nextComps[k].p2.x, !.y = nextComps[k].p2.y],
                nextComps, activeId, k + 1)
  ELSE SnapLoop(h, nextComps, activeId, k + 1)

\* activeComp after handlesToCheck.forEach
SnappedComp(c, nextComps, ds) ==
  IF ds.type = "COMPONENT"
  THEN [c EXCEPT !.p1 = SnapLoop(c.p1, nextComps, c.id, 1),
                 !.p2 = SnapLoop(c.p2, nextComps, c.id, 1)]
  ELSE IF ds.handle = "p1" THEN [c EXCEPT !.p1 = SnapLoop(c.p1, nextComps, c.id, 1)]
  ELSE [c EXCEPT !.p2 = SnapLoop(c.p2, nextComps, c.id, 1)]

\* the updater of the snapping logic
Snapped(prev, ds) ==
  IF find(prev, ds.compId) = 0 THEN prev
  ELSE [JsonClone(prev) EXCEPT
          ![find(prev, ds.compId)] = SnappedComp(JsonClone(prev)[find(prev, ds.compId)],
                                                 JsonClone(prev), ds)]

handleMouseUp ==
  /\ driver = "running" /\ listeners.active
  /\ IF ~listeners.hasMoved
     THEN IF /\ listeners.type = "COMPONENT"
             /\ find(components, listeners.compId) # 0
             /\ components[find(components, listeners.compId)].type = "SWITCH"
          THEN /\ edits + ticks < MaxSteps
               /\ components' = Clicked(components, listeners.compId)
               /\ edits' = edits + 1
          ELSE UNCHANGED <<components, edits>>
     ELSE /\ edits + ticks < MaxSteps
          /\ components' = Snapped(components, listeners)
          /\ edits' = edits + 1
  /\ dragState' = NoDrag
  /\ listeners' = NoDrag
  /\ UNCHANGED <<componentsRef, selectedId, driver, pending, animationFrameId, tick, nextId,
                 ticks, dt, out>>

\* useEffect(() => { window.addEventListener(...) ... }, [dragState]): the
\* listeners of the last render replace the ones attached
SyncListeners ==
  /\ listeners # dragState
  /\ listeners' = dragState
  /\ UNCHANGED <<components, componentsRef, selectedId, dragState, driver, pending,
                 animationFrameId, tick, nextId, edits, ticks, dt, out>>

-----------------------------------------------------------------------------
(* The application: the editor and the physics loop *)

Init ==
  /\ components = <<>>
  /\ componentsRef = <<>>
  /\ selectedId = 0
  /\ dragState = NoDrag
  /\ listeners = NoDrag
  /\ driver = "idle"
  /\ pending = {}
  /\ animationFrameId = 0
  /\ tick = NoTick
  /\ nextId = 1
  /\ edits = 0
  /\ ticks = 0
  /\ dt = SIMULATION_DT
  /\ out = [solved |-> FALSE]

Next ==
  \/ Mount
  \/ \E type \in AddedTypes : handleAddComponent(type)
  \/ \E preset \in LoadedPresets : handleLoadPreset(preset)
  \/ \E changes \in UNION {PanelChanges(components[k]) : k \in 1..Len(components)} :
       handlePropertyChange(selectedId, changes)
  \/ handleDelete(selectedId)
  \/ \E k \in PressedPlaces \cap (1..Len(components)), handle \in PressedParts :
       handleMouseDown(components[k].id, handle)
  \/ \E d \in Moves : handleMouseMove(d[1], d[2])
  \/ handleMouseUp
  \/ SyncListeners
  \/ SyncRef
  \/ \E frame \in pending : loop(frame)
  \/ Teardown

Spec == Init /\ [][Next]_vars

-----------------------------------------------------------------------------
(* Element lists given to solveCircuit *)

\* properties with nothing set (isOpen unset reads as false)
NoProperties ==
  [resistance |-> Undefined, voltage |-> Undefined, isOpen |-> FALSE,
   capacitance |-> Undefined, inductance |-> Undefined]

\* a CircuitComponent between the points a = <<x, y>> and b, never solved
Element(id, type, a, b, properties) ==
  [id |-> id, type |-> type,
   p1 |-> [x |-> a[1], y |-> a[2], id |-> <<id, "p1">>],
   p2 |-> [x |-> b[1], y |-> b[2], id |-> <<id, "p2">>],
   properties |-> properties,
   current |-> RZero, voltageDrop |-> RZero, p1Potential |-> RZero, p2Potential |-> RZero,
   prevCurrent |-> Undefined, prevP1Potential |-> Undefined, prevP2Potential |-> Undefined]

Resistive(r) == [NoProperties EXCEPT !.resistance = r]
Source(v) == [NoProperties EXCEPT !.voltage = v]
OpenSwitch == [NoProperties EXCEPT !.isOpen = TRUE]

\* the element with its two terminals exchanged when flip
Oriented(id, type, a, b, properties, flip) ==
  IF flip THEN Element(id, type, b, a, properties) ELSE Element(id, type, a, b, properties)

\* the list s of three elements, rotated by r places
Rotated(s, r) == <<s[(r % 3) + 1], s[((r + 1) % 3) + 1], s[((r + 2) % 3) + 1]>>

\* a closed loop of a battery (v), a closed switch and a resistor (r), the
\* terminals coincident at the joints
Loop(v, r, rot, flipB, flipR) ==
  Rotated(<<Oriented(1, "BATTERY", <<0, 100>>, <<0, 0>>, Source(v), flipB),
            Element(2, "SWITCH", <<0, 0>>, <<100, 0>>, NoProperties),
            Oriented(3, "RESISTOR", <<100, 0>>, <<0, 100>>, Resistive(r), flipR)>>, rot)

LoopVoltages == {RInt(12), RFrac(3, 2)}
LoopResistances == {RInt(1), RInt(47)}

Loops ==
  {Loop(v, r, rot, fb, fr) :
     v \in LoopVoltages, r \in LoopResistances, rot \in 0..2, fb \in BOOLEAN, fr \in BOOLEAN}

\* one element of each type on its own, its terminals apart or coincident
Singles ==
  {<<Element(1, type, <<0, 0>>, b, NoProperties)>> :
     type \in ComponentTypes, b \in {<<100, 0>>, <<0, 0>>}}

\* a battery and a resistor that touch nowhere, with a closed switch hanging
\* from the resistor
Disconnected ==
  <<Element(1, "BATTERY", <<0, 100>>, <<0, 0>>, Source(RInt(12))),
    Element(2, "RESISTOR", <<300, 0>>, <<400, 0>>, Resistive(RInt(47))),
    Element(3, "SWITCH", <<400, 0>>, <<500, 0>>, NoProperties)>>

\* three resistors whose first terminals lie near one another (the second
\* and the third at the offsets a and b from the first) and whose second
\* terminals lie far apart
Chain(a, b) ==
  <<Element(1, "RESISTOR", <<0, 0>>, <<0, 500>>, NoProperties),
    Element(2, "RESISTOR", a, <<1000, 500>>, NoProperties),
    Element(3, "RESISTOR", b, <<2000, 500>>, NoProperties)>>

ChainOffsets == {<<8, 0>>, <<6, 8>>, <<16, 0>>, <<9, 9>>}

Chains == {Chain(a, b) : a \in ChainOffsets, b \in ChainOffsets}

\* a loop with one more element of the given type, both terminals of which
\* resolve to the node at the point a (the second terminal at a or close to it)
SelfLoop(type, a, b) ==
  Loop(RInt(12), RInt(47), 0, FALSE, FALSE)
    \o <<Element(4, type, a, b, [NoProperties EXCEPT !.voltage = RInt(5)])>>

SelfLoops ==
  {SelfLoop(type, <<0, 100>>, <<0, 100>>) : type \in ComponentTypes}
    \cup {SelfLoop(type, <<100, 0>>, <<103, 4>>) : type \in ComponentTypes}

\* the loop with a fourth element that was solved between two nodes (12 V
\* across it, 1/4 A through it) before its terminals were brought together
Collapsed ==
  {[SelfLoop(type, <<100, 0>>, <<103, 4>>) EXCEPT
      ![4].prevCurrent = RFrac(1, 4),
      ![4].prevP1Potential = RInt(12),
      ![4].prevP2Potential = RZero] : type \in ComponentTypes \ {"BATTERY"}}

\* a closed loop of a battery, a closed switch, a resistor and a fourth
\* element (a wire, a capacitor or an inductor), with the given properties
\* of the battery, the resistor and the fourth element
Series(v, r, type, properties) ==
  <<Element(1, "BATTERY", <<0, 100>>, <<0, 0>>, Source(v)),
    Element(2, "SWITCH", <<0, 0>>, <<100, 0>>, NoProperties),
    Element(3, "RESISTOR", <<100, 0>>, <<100, 100>>, Resistive(r)),
    Element(4, type, <<100, 100>>, <<0, 100>>, properties)>>

\* a property that is not set, set to zero, or set to a value
Settings(value) == {Undefined, RZero, value}

Configured ==
  {Series(v, r, "WIRE", NoProperties) : v \in Settings(RInt(12)), r \in Settings(RInt(47))}
    \cup {Series(RInt(12), RInt(47), "CAPACITOR", [NoProperties EXCEPT !.capacitance = c]) :
            c \in Settings(RFrac(1, 1000))}
    \cup {Series(RInt(12), RInt(47), "INDUCTOR", [NoProperties EXCEPT !.inductance = l]) :
            l \in Settings(RInt(2))}

\* a ring in which the capacitor or the inductor lies between two nodes other
\* than ground (the node of the first terminal of the list)
Reactive ==
  {<<Element(1, "RESISTOR", <<0, 0>>, <<100, 0>>, Resistive(RInt(47))),
     Element(2, type, <<100, 0>>, <<100, 100>>, NoProperties),
     Element(3, "BATTERY", <<100, 100>>, <<0, 100>>, Source(RInt(12))),
     Element(4, "WIRE", <<0, 100>>, <<0, 0>>, NoProperties)>> :
     type \in {"CAPACITOR", "INDUCTOR"}}

\* a ring of two batteries and two resistors
TwoSources ==
  <<Element(1, "BATTERY", <<0, 100>>, <<0, 0>>, Source(RInt(12))),
    Element(2, "RESISTOR", <<0, 0>>, <<100, 0>>, Resistive(RInt(47))),
    Element(3, "BATTERY", <<100, 0>>, <<100, 100>>, Source(RInt(5))),
    Element(4, "LIGHTBULB", <<100, 100>>, <<0, 100>>, NoProperties)>>

SolveLists ==
  {<<>>, Disconnected, TwoSources} \cup Singles \cup Chains \cup SelfLoops \cup Loops
    \cup Configured \cup Reactive \cup Collapsed

-----------------------------------------------------------------------------
(* solveCircuit called on a list, and its result stored as the loop stores it *)

\* the dt of the call: 0 (steady state) or the driver's step
Steps == {RZero, SIMULATION_DT}

InitSolve ==
  /\ components \in SolveLists
  /\ componentsRef = components
  /\ selectedId = 0
  /\ dragState = NoDrag
  /\ listeners = NoDrag
  /\ driver = "idle"
  /\ pending = {}
  /\ animationFrameId = 0
  /\ tick = NoTick
  /\ nextId = 1
  /\ edits = 0
  /\ ticks = 0
  /\ dt \in Steps
  /\ out = [solved |-> FALSE]

\* const { pointPotentials, componentCurrents } = solveCircuit(components, dt)
Call ==
  /\ ~out.solved
  /\ out' = [solved |-> TRUE, result |-> solveCircuit(components, dt)]
  /\ UNCHANGED <<components, componentsRef, selectedId, dragState, listeners, driver, pending,
                 animationFrameId, tick, nextId, edits, ticks, dt>>

\* the list with the result written into it, as loop() does, given to the next call
Store ==
  /\ out.solved
  /\ ticks + 1 < MaxSteps
  /\ components' = NextComps(components, out.result.pointPotentials,
                             out.result.componentCurrents)
  /\ componentsRef' = components'
  /\ ticks' = ticks + 1
  /\ out' = [solved |-> FALSE]
  /\ UNCHANGED <<selectedId, dragState, listeners, driver, pending, animationFrameId, tick, nextId,
                 edits, dt>>

NextSolve == Call \/ Store

SpecSolve == InitSolve /\ [][NextSolve]_vars


-----------------------------------------------------------------------------
(* Properties of solveCircuit *)

\* the element of the given type in a list that has one
The(list, type) == list[CHOOSE k \in 1..Len(list) : list[k].type = type]

\* the number of elements of the given type
Count(list, type) == Cardinality({k \in 1..Len(list) : list[k].type = type})

\* a battery, a closed switch and a resistor and nothing else, joined end to
\* end in a ring at three points
IsSingleLoop(list) ==
  /\ Len(list) = 3
  /\ Count(list, "BATTERY") = 1 /\ Count(list, "SWITCH") = 1 /\ Count(list, "RESISTOR") = 1
  /\ ~The(list, "SWITCH").properties.isOpen
  /\ Cardinality({<<list[k].p1.x, list[k].p1.y>> : k \in 1..3}
                   \cup {<<list[k].p2.x, list[k].p2.y>> : k \in 1..3}) = 3
  /\ \A k \in 1..3 : <<list[k].p1.x, list[k].p1.y>> # <<list[k].p2.x, list[k].p2.y>>
  /\ \A j, k \in 1..3 :
       j # k => {<<list[j].p1.x, list[j].p1.y>>, <<list[j].p2.x, list[j].p2.y>>}
                  # {<<list[k].p1.x, list[k].p1.y>>, <<list[k].p2.x, list[k].p2.y>>}

\* V / (R + 1e-6)
LoopCurrent(list) ==
  RDiv(The(list, "BATTERY").properties.voltage,
       RAdd(The(list, "RESISTOR").properties.resistance, RFrac(1, 1000000)))

\* C1: for a closed loop of one battery V, one closed switch and one resistor
\* R, the resistor current and the battery current solveCircuit reports have
\* the magnitude V / (R + 1e-6), for dt = 0 and for dt > 0, at the first call
\* and at the calls after the result has been stored.
C1_LoopCurrent ==
  (out.solved /\ IsSingleLoop(components)) =>
    /\ RAbs(out.result.componentCurrents[The(components, "RESISTOR").id])
         = LoopCurrent(components)
    /\ RAbs(out.result.componentCurrents[The(components, "BATTERY").id])
         = LoopCurrent(components)

\* the loop solved, with dt > 0, after its result has been stored
C1_Witness ==
  /\ out.solved /\ IsSingleLoop(components)
  /\ dt = SIMULATION_DT
  /\ ticks >= 1
  /\ The(components, "RESISTOR").current = out.result.componentCurrents[The(components, "RESISTOR").id]
  /\ The(components, "RESISTOR").current # RZero

\* C2: whatever the list (empty, disconnected, with a singular matrix) and
\* whatever dt, the result of solveCircuit has a current entry for exactly
\* the element ids of the list and a potential entry for exactly its
\* terminal ids; both maps are empty for the empty list.
C2_TotalResult ==
  out.solved =>
    /\ DOMAIN out.result.componentCurrents = {components[k].id : k \in 1..Len(components)}
    /\ DOMAIN out.result.pointPotentials =
         {components[k].p1.id : k \in 1..Len(components)}
           \cup {components[k].p2.id : k \in 1..Len(components)}
    /\ Len(components) = 0 =>
         out.result.componentCurrents = <<>> /\ out.result.pointPotentials = <<>>

\* solved: a list whose elements are not all connected, with dt > 0 and a
\* singular matrix (the rows of the three floating nodes add up to zero)
C2_Witness ==
  /\ out.solved
  /\ Len(components) = 3
  /\ out.result.nodeCount = 5
  /\ Len(out.result.A) = 5
  /\ dt = SIMULATION_DT
  /\ \A j \in 1..5 :
       RAdd(RAdd(out.result.A[2][j], out.result.A[3][j]), out.result.A[4][j]) = RZero

\* the k-th terminal of the list, p1 before p2 within an element
Terminal(list, k) == IF k % 2 = 1 THEN list[(k + 1) \div 2].p1 ELSE list[k \div 2].p2

\* the node the result gives to a terminal
NodeOf(k) == out.result.pointToNode[Terminal(components, k).id]

\* the terminal is the first of its node
Representative(k) == \A j \in 1..(k - 1) : NodeOf(j) # NodeOf(k)

\* at a distance strictly less than 10
Near(a, b) == (a.x - b.x) * (a.x - b.x) + (a.y - b.y) * (a.y - b.y) < 100

\* the representatives before the terminal k that lie near it
NearRepresentatives(k) ==
  {j \in 1..(k - 1) :
     Representative(j) /\ Near(Terminal(components, j), Terminal(components, k))}

\* C3: every terminal is in the node of the first representative before it
\* that lies at a distance strictly less than 10 from it, and is itself a
\* representative (opens a node) if there is none; being near a member that
\* is not a representative does not count.
C3_SingleHop ==
  out.solved =>
    \A k \in 1..(2 * Len(components)) :
       IF NearRepresentatives(k) = {} THEN Representative(k)
       ELSE NodeOf(k) = NodeOf(CHOOSE j \in NearRepresentatives(k) :
                                 \A i \in NearRepresentatives(k) : j <= i)

\* B is in the node of the representative A, C is near B and not near A, and
\* C is not in the node of A; and a terminal at the distance 10 exactly from a
\* representative is not in its node
C3_Witness ==
  /\ out.solved
  /\ \E a, b, c \in 1..(2 * Len(components)) :
       /\ a < b /\ b < c
       /\ Representative(a) /\ NodeOf(b) = NodeOf(a)
       /\ Near(Terminal(components, b), Terminal(components, c))
       /\ ~Near(Terminal(components, a), Terminal(components, c))
       /\ NodeOf(c) # NodeOf(a)
  /\ \E a, b \in 1..(2 * Len(components)) :
       /\ a < b /\ Representative(a) /\ NodeOf(b) # NodeOf(a)
       /\ (Terminal(components, a).x - Terminal(components, b).x) = -6
       /\ (Terminal(components, a).y - Terminal(components, b).y) = -8

\* C4: for a list that is not empty every terminal has a node index, the
\* indices in use are exactly 0..nodeCount - 1 (so every node has a terminal),
\* and the nodes are numbered in the order in which their first terminals
\* appear.
C4_Partition ==
  (out.solved /\ Len(components) > 0) =>
    /\ DOMAIN out.result.pointToNode =
         {Terminal(components, k).id : k \in 1..(2 * Len(components))}
    /\ {NodeOf(k) : k \in 1..(2 * Len(components))} = 0..(out.result.nodeCount - 1)
    /\ \A j, k \in 1..(2 * Len(components)) :
         (j < k /\ Representative(j) /\ Representative(k)) => NodeOf(j) < NodeOf(k)

\* a list of three elements resolved into three nodes of two terminals each
C4_Witness ==
  /\ out.solved
  /\ Len(components) = 3
  /\ out.result.nodeCount = 3
  /\ \A n \in 0..2 : Cardinality({k \in 1..6 : NodeOf(k) = n}) = 2

\* C5: after an assembly A is square of dimension (nodeCount - 1) + the
\* number of batteries, and Z and the solution vector have that length.
C5_Dimension ==
  (out.solved /\ out.result.assembled) =>
    /\ Len(out.result.A) = (out.result.nodeCount - 1) + Count(components, "BATTERY")
    /\ \A r \in 1..Len(out.result.A) : Len(out.result.A[r]) = Len(out.result.A)
    /\ Len(out.result.Z) = Len(out.result.A)
    /\ Len(out.result.x) = Len(out.result.A)

\* a system of two node unknowns and two battery unknowns
C5_Witness ==
  /\ out.solved
  /\ out.result.nodeCount = 3
  /\ Count(components, "BATTERY") = 2
  /\ Len(out.result.x) = 4

\* C6: the p1 terminal of the first element is in node 0, and every terminal
\* in node 0 has the potential 0 in the result, whatever the solution vector.
C6_Ground ==
  (out.solved /\ Len(components) > 0) =>
    /\ NodeOf(1) = 0
    /\ \A k \in 1..(2 * Len(components)) :
         NodeOf(k) = 0 => out.result.pointPotentials[Terminal(components, k).id] = RZero

\* node 0 holds a second terminal, and the solution has no zero in it
C6_Witness ==
  /\ out.solved
  /\ \E k \in 2..(2 * Len(components)) : NodeOf(k) = 0
  /\ Len(out.result.x) > 0
  /\ \A i \in 1..Len(out.result.x) : out.result.x[i] # RZero

\* the list without its k-th element
Omit(list, k) == SubSeq(list, 1, k - 1) \o SubSeq(list, k + 1, Len(list))

\* the sequence s with z put in as its v-th entry
InsertAt(s, v, z) == SubSeq(s, 1, v - 1) \o <<z>> \o SubSeq(s, v, Len(s))

\* the system [A, Z] with the unknown v added, in no equation and with a zero equation
WithIdleUnknown(AZ, v) ==
  [A |-> InsertAt([r \in 1..Len(AZ.A) |-> InsertAt(AZ.A[r], v, RZero)], v,
                  [c \in 1..(Len(AZ.A) + 1) |-> RZero]),
   Z |-> InsertAt(AZ.Z, v, RZero)]

\* the system of the list assembled with the stamp of its k-th element left
\* out: same nodes, same unknowns in the same order (a battery keeps its
\* unknown, an element of another type owns none)
StampOmitted(list, k, step, r) ==
  IF list[k].type = "BATTERY"
  THEN WithIdleUnknown(Assemble(Omit(list, k), step, r.pointToNode, r.nodeCount),
                       (r.nodeCount - 1) + Count(SubSeq(list, 1, k), "BATTERY"))
  ELSE Assemble(Omit(list, k), step, r.pointToNode, r.nodeCount)

\* the elements whose two terminals are in one node
SelfLoopPlaces(list, r) ==
  {k \in 1..Len(list) : r.pointToNode[list[k].p1.id] = r.pointToNode[list[k].p2.id]}

\* C7: for an element of any type whose two terminals resolve to one node,
\* the A and the Z assembled are the ones assembled with the stamp of the
\* element left out (same nodes, same order of the unknowns).
C7_SelfLoopStampsNothing ==
  (out.solved /\ out.result.assembled) =>
    \A k \in SelfLoopPlaces(components, out.result) :
       /\ out.result.A = StampOmitted(components, k, dt, out.result).A
       /\ out.result.Z = StampOmitted(components, k, dt, out.result).Z

\* the value of a property: the configured one if it is set, else the default
Effective(v, dflt) == IF IsUndefined(v) THEN dflt ELSE v

\* a ring of a battery, a closed switch, a resistor and a wire, a capacitor
\* or an inductor, in this order, the fourth element between two places
IsSeries(list) ==
  /\ Len(list) = 4
  /\ list[1].type = "BATTERY" /\ list[2].type = "SWITCH" /\ list[3].type = "RESISTOR"
  /\ list[4].type \in {"WIRE", "CAPACITOR", "INDUCTOR"}
  /\ list[1].p2.x = list[2].p1.x /\ list[1].p2.y = list[2].p1.y
  /\ list[2].p2.x = list[3].p1.x /\ list[2].p2.y = list[3].p1.y
  /\ list[3].p2.x = list[4].p1.x /\ list[3].p2.y = list[4].p1.y
  /\ list[4].p2.x = list[1].p1.x /\ list[4].p2.y = list[1].p1.y
  /\ <<list[4].p1.x, list[4].p1.y>> # <<list[4].p2.x, list[4].p2.y>>

\* the magnitude of the current of the ring at the first call, the
\* properties taken at their effective values: V / (R + 2e) with a wire (or
\* an inductor at dt = 0), V G / (1 + G (R + e)) with a capacitor of
\* conductance G = C / dt (1e-9 at dt = 0), V / (R + e + L / dt) with an
\* inductor, for e = 1e-6
SeriesCurrent(list, step) ==
  LET V == Effective(list[1].properties.voltage, RInt(9))
      R == Effective(list[3].properties.resistance, RInt(10))
      C == Effective(list[4].properties.capacitance, RFrac(1, 10000))
      L == Effective(list[4].properties.inductance, ROne)
      e == RFrac(1, 1000000)
      G == IF step.s > 0 THEN RDiv(C, step) ELSE RFrac(1, 1000000000)
  IN IF list[4].type = "CAPACITOR"
     THEN RDiv(RMul(V, G), RAdd(ROne, RMul(G, RAdd(R, e))))
     ELSE IF list[4].type = "INDUCTOR" /\ step.s > 0
     THEN RDiv(V, RAdd(RAdd(R, e), RDiv(L, step)))
     ELSE RDiv(V, RAdd(R, RAdd(e, e)))

\* C8: the solver computes with the configured resistance, voltage,
\* capacitance and inductance of an element whenever the property is set,
\* and with the default 10 ohm, 9 V, 1e-4 F, 1 H only when it is not set: the
\* current it reports for the ring is the one of the effective values.
C8_ConfiguredValueUsed ==
  (out.solved /\ ticks = 0 /\ IsSeries(components)) =>
    RAbs(out.result.componentCurrents[components[3].id]) = SeriesCurrent(components, dt)

\* the system after the elimination passes of the columns 1..k
RECURSIVE ColumnsDone(_, _)
ColumnsDone(S, k) == IF k = 0 THEN S ELSE EliminateColumn(ColumnsDone(S, k - 1), k)

\* every candidate pivot of column i (the rows i..n) is below the tolerance
NoPivot(M, i) == \A k \in i..Len(M) : RLt(RAbs(M[k][i]), PIVOT_TOLERANCE)

\* some column of the system (A, Z) has no pivot when its pass comes
HasSkippedColumn(A, Z) ==
  \E i \in 1..Len(A) : NoPivot(ColumnsDone([M |-> A, x |-> Z], i - 1).M, i)

\* C9: gaussianElimination returns a vector for a singular system; the pass
\* of a column whose pivot has magnitude below 1e-10 changes nothing but the
\* order of the rows, every unknown whose diagonal entry after elimination
\* is not above 1e-10 in magnitude is returned as exactly 0, and an all-zero
\* matrix yields the zero vector whatever the right-hand side.
C9_SingularSystems ==
  (out.solved /\ out.result.assembled) =>
    LET A == out.result.A
        Z == out.result.Z
        n == Len(A)
        S0 == [M |-> A, x |-> Z]
        Sn == ColumnsDone(S0, n)
    IN /\ Len(out.result.x) = n
       /\ \A i \in 1..n :
            LET P == ColumnsDone(S0, i - 1)
                Q == ColumnsDone(S0, i)
            IN NoPivot(P.M, i) =>
                 \E m \in i..n : Q = [M |-> Swap(P.M, i, m), x |-> Swap(P.x, i, m)]
       /\ \A i \in 1..n :
            ~RGt(RAbs(Sn.M[i][i]), PIVOT_TOLERANCE) => out.result.x[i] = RZero
       /\ (\A i, j \in 1..n : A[i][j] = RZero) => \A i \in 1..n : out.result.x[i] = RZero

\* a singular system of several unknowns with a non-zero right-hand side has
\* been solved, a column of it skipped
C9_Witness ==
  /\ out.solved /\ out.result.assembled
  /\ Len(out.result.A) > 1
  /\ HasSkippedColumn(out.result.A, out.result.Z)
  /\ \E i \in 1..Len(out.result.Z) : out.result.Z[i] # RZero
  /\ \E i \in 1..Len(out.result.x) : out.result.x[i] # RZero

\* the rule table of the element model: the conductance G of a non-battery
\* element, its properties taken at their effective values
RuleG(c, step) ==
  IF c.type \in {"WIRE", "AMMETER"} THEN RInv(RFrac(1, 1000000))
  ELSE IF c.type \in {"RESISTOR", "LIGHTBULB"}
       THEN RInv(Effective(c.properties.resistance, RInt(10)))
  ELSE IF c.type = "SWITCH"
       THEN (IF c.properties.isOpen THEN RInv(RInt(1000000000)) ELSE RInv(RFrac(1, 1000000)))
  ELSE IF c.type = "VOLTMETER" THEN RInv(RInt(1000000000))
  ELSE IF c.type = "CAPACITOR"
       THEN (IF step.s > 0
             THEN RDiv(Effective(c.properties.capacitance, RFrac(1, 10000)), step)
             ELSE RInv(RInt(1000000000)))
  ELSE IF step.s > 0 THEN RDiv(step, Effective(c.properties.inductance, ROne))
  ELSE RInv(RFrac(1, 1000000))

\* the rule table of the element model: the source value I
RuleI(c, step) ==
  IF c.type = "CAPACITOR" /\ step.s > 0
  THEN RNeg(RMul(RuleG(c, step), RSub(Effective(c.prevP1Potential, RZero),
                                      Effective(c.prevP2Potential, RZero))))
  ELSE IF c.type = "INDUCTOR" /\ step.s > 0 THEN Effective(c.prevCurrent, RZero)
  ELSE RZero

\* the quotient of the rule is defined: no resistance 0, no inductance 0
RuleDefined(c, step) ==
  /\ c.type \in {"RESISTOR", "LIGHTBULB"} => Effective(c.properties.resistance, RInt(10)).s # 0
  /\ (c.type = "INDUCTOR" /\ step.s > 0) => Effective(c.properties.inductance, ROne).s # 0

\* C21: the conductance and the source value the solver computes for a
\* non-battery element are those of the rule table (wire, ammeter 1/1e-6;
\* resistor, lightbulb 1/R; switch 1/1e-6 closed, 1/1e9 open; voltmeter
\* 1/1e9; capacitor C/dt with I = -G (prevP1Potential - prevP2Potential) for
\* dt > 0, else 1/1e9 and 0; inductor dt/L with I = prevCurrent for dt > 0,
\* else 1/1e-6 and 0), and a single element between ground and a node leaves
\* its G as the one entry of A.
C21_ElementModel ==
  out.solved =>
    /\ \A k \in 1..Len(components) :
         (components[k].type # "BATTERY" /\ RuleDefined(components[k], dt)) =>
           /\ Conductance(components[k], dt) = RuleG(components[k], dt)
           /\ CurrentSource(components[k], dt) = RuleI(components[k], dt)
    /\ (/\ Len(components) = 1 /\ components[1].type # "BATTERY"
        /\ Len(out.result.A) = 1 /\ RuleDefined(components[1], dt)) =>
         out.result.A[1][1] = RuleG(components[1], dt)

\* the nodes of the two terminals of the k-th element in the result
N1(k) == out.result.pointToNode[components[k].p1.id]
N2(k) == out.result.pointToNode[components[k].p2.id]

\* the non-battery elements between two distinct nodes
Stamped == {k \in 1..Len(components) : components[k].type # "BATTERY" /\ N1(k) # N2(k)}

\* the sum of the conductances of the elements of K
RECURSIVE SumG(_)
SumG(K) ==
  IF K = {} THEN RZero
  ELSE LET k == CHOOSE k \in K : TRUE
       IN RAdd(Conductance(components[k], dt), SumG(K \ {k}))

\* C22: in the node block of A (node n > 0 at row and column n) the diagonal
\* entry of a node is the sum of the conductances of the non-battery elements
\* between distinct nodes that have a terminal in it, and the entry of two
\* different nodes is minus the sum of the conductances of those elements
\* that lie between the two.
C22_ConductanceStamps ==
  (out.solved /\ out.result.assembled) =>
    \A i, j \in 1..(out.result.nodeCount - 1) :
       out.result.A[i][j] =
         IF i = j THEN SumG({k \in Stamped : N1(k) = i \/ N2(k) = i})
         ELSE RNeg(SumG({k \in Stamped : {N1(k), N2(k)} = {i, j}}))

\* a solved list with an element between two non-ground nodes, an element
\* between ground and a node, and a node where two elements meet
C22_Witness ==
  /\ out.solved /\ out.result.assembled
  /\ \E k \in Stamped : N1(k) > 0 /\ N2(k) > 0
  /\ \E k \in Stamped : N1(k) = 0 \/ N2(k) = 0
  /\ \E i \in 1..(out.result.nodeCount - 1) :
       Cardinality({k \in Stamped : N1(k) = i \/ N2(k) = i}) > 1

\* the sum of the source values of the elements of K
RECURSIVE SumI(_)
SumI(K) ==
  IF K = {} THEN RZero
  ELSE LET k == CHOOSE k \in K : TRUE
       IN RAdd(CurrentSource(components[k], dt), SumI(K \ {k}))

\* the elements of the given types with a terminal in the node
Touching(i, types) ==
  {k \in 1..Len(components) : components[k].type \in types /\ (N1(k) = i \/ N2(k) = i)}

\* C23: the entry of Z of a node n > 0 is the sum of the source values of
\* the elements between distinct nodes whose p2 is in it minus the sum of the
\* source values of those whose p1 is in it, and it is 0 for a node touched by
\* no capacitor and no inductor.
C23_CurrentSourceStamps ==
  (out.solved /\ out.result.assembled) =>
    \A i \in 1..(out.result.nodeCount - 1) :
       /\ out.result.Z[i] = RSub(SumI({k \in Stamped : N2(k) = i}),
                                 SumI({k \in Stamped : N1(k) = i}))
       /\ Touching(i, {"CAPACITOR", "INDUCTOR"}) = {} => out.result.Z[i] = RZero

\* a solved list with a capacitor or an inductor of non-zero source value
\* between two non-ground nodes
C23_Witness ==
  /\ out.solved /\ out.result.assembled
  /\ \E k \in Stamped :
       /\ N1(k) > 0 /\ N2(k) > 0
       /\ CurrentSource(components[k], dt) # RZero
       /\ out.result.Z[N1(k)] # RZero /\ out.result.Z[N2(k)] # RZero

\* the position of the k-th element among the batteries of the list
BatteryRank(k) == Count(SubSeq(components, 1, k), "BATTERY")

\* the row and the column of the unknown of the battery at position k
VIndex(k) == (out.result.nodeCount - 1) + BatteryRank(k)

\* +1 at the node of p1 and -1 at the node of p2 of the k-th element, for the
\* row or column j of a node
Incidence(k, j) ==
  RSub(IF N1(k) = j THEN ROne ELSE RZero, IF N2(k) = j THEN ROne ELSE RZero)

\* C24: the k-th battery of the list owns row and column (nodeCount - 1) + k
\* of the system: the row holds +1 in the column of the node of its p1 and -1
\* in that of its p2 (nothing for ground), the column holds the same entries,
\* the right-hand side of the row is the voltage of the battery, and the
\* current reported for the battery is the unknown of that index.
C24_VoltageSourceRows ==
  (out.solved /\ out.result.assembled) =>
    \A k \in 1..Len(components) :
       components[k].type = "BATTERY" =>
         /\ \A j \in 1..(out.result.nodeCount - 1) :
              /\ out.result.A[VIndex(k)][j] = Incidence(k, j)
              /\ out.result.A[j][VIndex(k)] = Incidence(k, j)
         /\ out.result.Z[VIndex(k)] = Effective(components[k].properties.voltage, RInt(9))
         /\ out.result.componentCurrents[components[k].id] = out.result.x[VIndex(k)]

\* G (V1 - V2) + I for the k-th element: G and I of the element model for
\* the dt and the history of the call, V1 and V2 the reported potentials of
\* p1 and p2
ModelCurrent(k) ==
  RAdd(RMul(Conductance(components[k], dt),
            RSub(out.result.pointPotentials[components[k].p1.id],
                 out.result.pointPotentials[components[k].p2.id])),
       CurrentSource(components[k], dt))

\* C25 as stated: the current reported for every non-battery element is
\* G (V1 - V2) + I.
C25_ExtractorMatchesModel ==
  out.solved =>
    \A k \in 1..Len(components) :
       components[k].type # "BATTERY" =>
         out.result.componentCurrents[components[k].id] = ModelCurrent(k)

\* C25: the current reported for a non-battery element is G (V1 - V2) + I,
\* except for a capacitor in a call with dt = 0, for which it is 0.
C25_ExtractorConsistent ==
  out.solved =>
    \A k \in 1..Len(components) :
       components[k].type # "BATTERY" =>
         out.result.componentCurrents[components[k].id] =
           IF components[k].type = "CAPACITOR" /\ dt.s <= 0 THEN RZero ELSE ModelCurrent(k)

\* a call with dt > 0 reports the current of an element with a non-zero
\* source value and a non-zero voltage across it
C25_Witness ==
  /\ out.solved /\ dt.s > 0
  /\ \E k \in 1..Len(components) :
       /\ components[k].type \in {"CAPACITOR", "INDUCTOR"}
       /\ CurrentSource(components[k], dt) # RZero
       /\ out.result.pointPotentials[components[k].p1.id]
            # out.result.pointPotentials[components[k].p2.id]
       /\ out.result.componentCurrents[components[k].id] # RZero

\* C26: the assembled matrix is symmetric, A[i][j] = A[j][i] for all i and j,
\* whatever the list: several batteries, elements at ground, self-loops.
C26_Symmetric ==
  (out.solved /\ out.result.assembled) =>
    \A i, j \in 1..Len(out.result.A) : out.result.A[i][j] = out.result.A[j][i]

\* a system assembled for a list with two batteries, a self-loop and an
\* element at ground, with entries off the diagonal in the node block and in
\* the battery rows
C26_Witness ==
  /\ out.solved /\ out.result.assembled
  /\ Count(components, "BATTERY") > 1
  /\ SelfLoopPlaces(components, out.result) # {}
  /\ \E k \in Stamped : N1(k) = 0 \/ N2(k) = 0
  /\ \E i, j \in 1..(out.result.nodeCount - 1) : i # j /\ out.result.A[i][j] # RZero
  /\ \E k \in 1..Len(components) :
       /\ components[k].type = "BATTERY"
       /\ \E j \in 1..(out.result.nodeCount - 1) : out.result.A[VIndex(k)][j] # RZero

\* C28: the current reported for a non-battery element whose two terminals
\* are in one node is 0, whatever its type, the dt of the call and the
\* history stored in it.
C28_SelfLoopCurrentZero ==
  out.solved =>
    \A k \in SelfLoopPlaces(components, out.result) :
       components[k].type # "BATTERY" =>
         out.result.componentCurrents[components[k].id] = RZero

\* C29: the voltageDrop the driver stores after a solve is derived with the
\* effective values the solve used: for a resistor or a lightbulb it is the
\* stored current times the resistance the solver computed with, and equals
\* p1Potential - p2Potential; for a battery it is the right-hand side of the
\* battery's row, also when the property is not set.
C29_DropWithSolverValues ==
  [][(out.solved /\ out.result.assembled /\ ~out'.solved) =>
       \A k \in 1..Len(components) :
          /\ components[k].type \in {"RESISTOR", "LIGHTBULB"} =>
               /\ components'[k].voltageDrop
                    = RMul(components'[k].current, Resistance(components[k]))
               /\ components'[k].voltageDrop
                    = RSub(components'[k].p1Potential, components'[k].p2Potential)
          /\ components[k].type = "BATTERY" =>
               components'[k].voltageDrop = out.result.Z[VIndex(k)]]_vars

-----------------------------------------------------------------------------
(* Properties of the stored element list *)

\* C10: in every state of the application, reached through whatever editor
\* operations and tick commits, each element of the stored list has
\* prevCurrent = current, prevP1Potential = p1Potential and
\* prevP2Potential = p2Potential.
C10_HistoryEqualsOutputs ==
  \A i \in 1..Len(components) :
     /\ components[i].prevCurrent = components[i].current
     /\ components[i].prevP1Potential = components[i].p1Potential
     /\ components[i].prevP2Potential = components[i].p2Potential

\* a tick committed a current and a potential that are not zero, and the
\* editor changed the list afterwards
C10_Witness ==
  /\ tick.ran /\ tick.changed
  /\ edits > tick.editsAt
  /\ \E i \in 1..Len(components) :
       /\ components[i].current # RZero
       /\ components[i].p2Potential # RZero

-----------------------------------------------------------------------------
(* Properties of the physics loop *)

\* |a - b| > 1e-4
Exceeds(a, b) == RGt(RAbs(RSub(a, b)), RFrac(1, 10000))

\* the step is an execution of loop()
IsTick == ticks' = ticks + 1

\* C11: a tick commits its updated list if and only if, for at least one
\* element, the newly computed current or voltageDrop differs by more than
\* 1e-4 from the value in the list the tick read; a committing tick stores
\* exactly the list it computed and any other tick leaves the stored list
\* untouched.
C11_CommitIffChanged ==
  [][IsTick =>
       /\ tick'.changed <=>
            \E i \in 1..Len(tick'.snapshot) :
               \/ Exceeds(tick'.next[i].current, tick'.snapshot[i].current)
               \/ Exceeds(tick'.next[i].voltageDrop, tick'.snapshot[i].voltageDrop)
       /\ tick'.changed => components' = tick'.next
       /\ ~tick'.changed => components' = components]_vars

\* a tick was suppressed although it computed a different (sub-threshold) current
C11_Witness ==
  /\ tick.ran /\ ~tick.changed
  /\ \E i \in 1..Len(tick.snapshot) : tick.next[i].current # tick.snapshot[i].current
  /\ components = tick.stored

\* C12: once a tick that read the stored list has been suppressed, then, the
\* editor making no edit, the next tick reads the same list, computes the
\* same result and is suppressed too, and the stored list stays as it was;
\* the later tick is then itself such a tick, so this goes on for every later
\* tick.
C12_SteadyStaysSuppressed ==
  [][(/\ IsTick
      /\ tick.ran /\ ~tick.changed
      /\ tick.snapshot = tick.stored
      /\ edits = tick.editsAt)
       => /\ tick'.snapshot = tick.snapshot
          /\ tick'.pointPotentials = tick.pointPotentials
          /\ tick'.componentCurrents = tick.componentCurrents
          /\ tick'.next = tick.next
          /\ ~tick'.changed
          /\ tick'.stored = tick.stored
          /\ components' = components]_vars

\* a second suppressed tick in a row, on a list whose computed values differ
\* (below the threshold) from the stored ones
C12_Witness ==
  /\ tick.ran /\ tick.steady /\ ~tick.changed
  /\ components = tick.snapshot
  /\ tick.next # tick.snapshot

\* the outputs of every element of list are the ones derived from the solve of tick t
Derived(list, t) ==
  /\ Len(list) = Len(t.snapshot)
  /\ \A i \in 1..Len(list) :
       /\ list[i].current = Or(Get(t.componentCurrents, list[i].id), RZero)
       /\ list[i].p1Potential = Or(Get(t.pointPotentials, list[i].p1.id), RZero)
       /\ list[i].p2Potential = Or(Get(t.pointPotentials, list[i].p2.id), RZero)
       /\ list[i].voltageDrop =
            VoltageDrop(list[i], list[i].current, list[i].p1Potential, list[i].p2Potential)

\* C13 as stated: after any tick the outputs in the stored list are the ones
\* derived from that tick's solve.
C13_EveryTickOverwrites == [][IsTick => Derived(components', tick')]_vars

\* C13: after a tick that commits, every element's current, voltageDrop,
\* p1Potential and p2Potential in the stored list equal the values derived
\* from that tick's solve; a tick the gate suppresses leaves the stored
\* outputs as they were.
C13_CommitOverwrites ==
  [][IsTick => IF tick'.changed THEN Derived(components', tick')
               ELSE components' = components]_vars

\* a tick committed outputs that differ from the ones the list held, among
\* them a current that is not zero
C13_Witness ==
  /\ tick.ran /\ tick.changed
  /\ components = tick.next
  /\ \E i \in 1..Len(components) :
       /\ components[i].current # RZero
       /\ components[i].current # tick.stored[i].current
       /\ components[i].p1Potential # tick.stored[i].p1Potential

\* C15: the list a tick computes has the length and the order of the snapshot
\* the tick read, and each of its elements has the id, the type, the two
\* terminals (ids and coordinates) and the properties of the snapshot's
\* element at the same place.
C15_OnlySolverFields ==
  tick.ran =>
    /\ Len(tick.next) = Len(tick.snapshot)
    /\ \A i \in 1..Len(tick.snapshot) :
         /\ tick.next[i].id = tick.snapshot[i].id
         /\ tick.next[i].type = tick.snapshot[i].type
         /\ tick.next[i].p1 = tick.snapshot[i].p1
         /\ tick.next[i].p2 = tick.snapshot[i].p2
         /\ tick.next[i].properties = tick.snapshot[i].properties

\* a tick computed a list that differs from its snapshot, one of whose
\* switches is open
C15_Witness ==
  /\ tick.ran
  /\ tick.next # tick.snapshot
  /\ \E i \in 1..Len(tick.snapshot) :
       tick.snapshot[i].type = "SWITCH" /\ tick.snapshot[i].properties.isOpen

\* the list is the series loop of the rc preset with its switch closed
IsRcLoop(list) ==
  /\ Len(list) = 5
  /\ list[1].type = "BATTERY"
  /\ list[2].type = "SWITCH" /\ ~list[2].properties.isOpen
  /\ list[3].type = "RESISTOR"
  /\ list[4].type = "CAPACITOR"

\* the capacitor voltage of the loop, in the direction the battery charges it
CapacitorVoltage(list) == RAbs(list[4].voltageDrop)

\* C20: in the series loop of battery V, closed switch, resistor and
\* capacitor, a tick that reads the stored list leaves a capacitor voltage
\* that is not below the one before, is not above V and, as long as V is not
\* reached, is closer to V than the one before.
C20_RcCharging ==
  [][(IsTick /\ IsRcLoop(components) /\ componentsRef = components)
       => /\ RLe(CapacitorVoltage(components), CapacitorVoltage(components'))
          /\ RLe(CapacitorVoltage(components'), components[1].properties.voltage)
          /\ RLt(CapacitorVoltage(components), components[1].properties.voltage)
               => RLt(CapacitorVoltage(components), CapacitorVoltage(components'))]_vars

\* C17: once the driver is torn down no frame callback is scheduled, and from
\* then on no tick body executes and the stored list is not written,
\* whichever tick ran last.
C17_NoTickAfterTeardown ==
  /\ [](driver = "torn" => pending = {})
  /\ [][driver = "torn" => /\ ticks' = ticks
                           /\ tick' = tick
                           /\ components' = components]_vars

\* the driver was torn down after a tick that committed, with the next frame
\* requested by that tick cancelled
C17_Witness ==
  /\ driver = "torn"
  /\ tick.ran /\ tick.changed /\ ticks >= 1 /\ edits + ticks < MaxSteps
  /\ animationFrameId = ticks + 1
  /\ pending = {}

\* C18: at every moment at most one frame callback is scheduled.  (A tick is
\* one uninterrupted run of loop(), so a scheduled callback can start only
\* when no tick is executing.)
C18_OneScheduledTick == Cardinality(pending) <= 1

\* the second tick has run and its one successor is scheduled
C18_Witness ==
  /\ driver = "running"
  /\ ticks >= 2
  /\ pending = {animationFrameId}

\* C19: while the driver is mounted and not torn down exactly one frame
\* callback is scheduled; every executed tick, committing or suppressed,
\* requests exactly one new frame; and, frame callbacks being run fairly,
\* after every tick count n below the bound either tick n + 1 executes or
\* the driver is torn down.
C19_TicksKeepOccurring ==
  /\ [](driver = "running" => Cardinality(pending) = 1)
  /\ [][IsTick => Cardinality(pending' \ pending) = 1]_vars
  /\ \A n \in 0..(MaxSteps - 1) :
       (driver = "running" /\ ticks = n) ~> (ticks = n + 1 \/ driver = "torn")

\* a suppressed tick has requested the next frame
C19_Witness ==
  /\ driver = "running"
  /\ tick.ran /\ ~tick.changed
  /\ pending = {ticks + 1}
  /\ tick.frame = ticks

\* the lists a and b differ in solver-owned fields at most
SameButSolverFields(a, b) ==
  /\ Len(a) = Len(b)
  /\ \A i \in 1..Len(a) :
       /\ a[i].id = b[i].id
       /\ a[i].type = b[i].type
       /\ a[i].p1 = b[i].p1
       /\ a[i].p2 = b[i].p2
       /\ a[i].properties = b[i].properties

\* C14: whatever the interleaving of editor operations, ref synchronisations
\* and ticks, the list a tick commits differs from the list stored at the
\* time of the commit in solver-owned fields only, so that every edit applied
\* before the commit is still in the list after it.
C14_NoEditLost ==
  [][IsTick /\ tick'.changed => SameButSolverFields(components', components)]_vars

-----------------------------------------------------------------------------
(* Properties of the editor *)

\* the two terminals are at the same coordinates
SamePlace(a, b) == a.x = b.x /\ a.y = b.y

\* terminals of the list at the same coordinates are in the same node
Coincident(list) ==
  LET node == Topology(list).pointToNode
  IN \A a, b \in 1..(2 * Len(list)) :
        SamePlace(Terminal(list, a), Terminal(list, b)) =>
          node[Terminal(list, a).id] = node[Terminal(list, b).id]

\* the terminal h ("p1" or "p2") of the element
HandleOf(c, h) == IF h = "p1" THEN c.p1 ELSE c.p2

\* the terminals a release of the drag looks a snap target for
ReleasedHandles(ds) == IF ds.type = "COMPONENT" THEN {"p1", "p2"} ELSE {ds.handle}

\* the terminals of the elements of the list other than the one at place k
OtherTerminals(list, k) == {Terminal(list, t) : t \in 1..(2 * Len(list)) \ {2 * k - 1, 2 * k}}

\* the step is the release of a drag that has crossed the movement threshold
IsDragRelease ==
  /\ listeners.active /\ listeners.hasMoved /\ ~dragState'.active
  /\ find(components, listeners.compId) # 0

\* C27: terminals with identical coordinates are in the same node, in the
\* stored list and in the list the next solve reads, whatever the order of
\* the elements and the terminals nearby; and a dragged handle released
\* within the snap radius of a terminal of another element lies, after the
\* release, at the coordinates of a terminal of another element and in its node.
C27_SameCoordinatesSameNode ==
  /\ [](Coincident(components) /\ Coincident(componentsRef))
  /\ [][IsDragRelease =>
         LET k == find(components, listeners.compId)
             node == Topology(components').pointToNode
         IN \A h \in ReleasedHandles(listeners) :
              (\E o \in OtherTerminals(components, k) :
                 HypotLess(HandleOf(components[k], h).x - o.x,
                           HandleOf(components[k], h).y - o.y, SNAP_RADIUS)) =>
                \E o \in OtherTerminals(components', k) :
                   /\ SamePlace(HandleOf(components'[k], h), o)
                   /\ node[HandleOf(components'[k], h).id] = node[o.id]]_vars

\* a preset was loaded, the first terminal of its second or third element
\* dragged by its handle off the terminal it was joined to and released: it
\* lies on a terminal of another element again
C27_Witness ==
  /\ ~dragState.active /\ selectedId = 0
  /\ edits = MaxSteps /\ nextId = Len(components) + 1
  /\ \E k \in PressedPlaces \cap (1..Len(components)) :
       \E o \in OtherTerminals(components, k) : SamePlace(components[k].p1, o)

\* the list b is the list a with the state of the switch at place k changed
ToggledOnce(a, b, k) == b = [a EXCEPT ![k].properties.isOpen = ~a[k].properties.isOpen]

\* the list b is the list a but for the coordinates of the terminals of the
\* element at place k
TerminalsMoved(a, b, k) ==
  /\ Len(b) = Len(a)
  /\ \A i \in 1..Len(a) :
       IF i = k
       THEN b[i] = [a[i] EXCEPT !.p1.x = b[i].p1.x, !.p1.y = b[i].p1.y,
                                !.p2.x = b[i].p2.x, !.p2.y = b[i].p2.y]
       ELSE b[i] = a[i]

\* C30: a release after a press on the body of a switch during which the
\* pointer has not moved 5 units or more from the place of the press changes
\* the isOpen of that switch and nothing else; a release after such a press
\* on a handle or on the body of another element changes nothing; a release
\* after the movement threshold has been crossed changes no isOpen, only the
\* coordinates of the terminals of the pressed element; every release clears
\* the drag state; and a press, and a move that stays below the threshold,
\* change nothing in the list.
C30_ClickVersusDrag ==
  /\ [][handleMouseUp =>
         LET k == find(components, dragState.compId)
         IN /\ dragState' = NoDrag
            /\ IF dragState.hasMoved THEN TerminalsMoved(components, components', k)
               ELSE IF /\ dragState.type = "COMPONENT" /\ k # 0
                       /\ components[k].type = "SWITCH"
               THEN ToggledOnce(components, components', k)
               ELSE components' = components]_vars
  /\ [][(~IsTick /\ dragState'.active /\ ~dragState'.hasMoved) =>
         components' = components]_vars

====
